---- MODULE Spec2Model ----
(***************************************************************************)
(* Model of git_setup.py: the command runner, the porcelain status parser, *)
(* the file-selection prompt, the interactive commit flow and the main     *)
(* workflow with its exit statuses.                                        *)
(*                                                                         *)
(* Text (command output, user input, file content) is a sequence of        *)
(* one-character strings, so that strip(), split() and slicing are         *)
(* computed as Python computes them.                                       *)
(***************************************************************************)
EXTENDS Integers, Sequences, FiniteSets, TLC

NL == "\n"

TAB == "\t"

CR == "\r"

FF == "\f"

\* Bounds of the pure-function specification.
MaxLines == 2

MaxTokens == 2

(***************************************************************************)
(* Python string primitives                                                *)
(***************************************************************************)
\* Characters str.strip() removes when called without argument.
\* They are the characters str.isspace() holds of: tab, newline, vertical
\* tab, form feed, carriage return, U+001C..U+001F, space, U+0085, U+00A0 and
\* U+1680.  The space separators from U+2000 on are whitespace to Python as
\* well; a string of a module cannot hold them and no text modelled here does.
Whitespace ==
  {TAB, NL, "", FF, CR,
   "", "", "", "", " ", "", " ", " "}

IsSpace(c) == c \in Whitespace

RECURSIVE LStrip(_)
LStrip(s) == IF s = <<>> THEN s
             ELSE IF IsSpace(Head(s)) THEN LStrip(Tail(s)) ELSE s

RECURSIVE RStrip(_)
RStrip(s) == IF s = <<>> THEN s
             ELSE IF IsSpace(s[Len(s)]) THEN RStrip(SubSeq(s, 1, Len(s) - 1)) ELSE s

\* str.strip()
Strip(s) == RStrip(LStrip(s))

\* str.split(sep) for a one-character separator: always at least one piece.
RECURSIVE Split(_, _)
Split(s, sep) ==
  IF \E i \in 1..Len(s) : s[i] = sep
  THEN LET i == CHOOSE k \in 1..Len(s) : s[k] = sep /\ \A j \in 1..(k - 1) : s[j] # sep
       IN  <<SubSeq(s, 1, i - 1)>> \o Split(SubSeq(s, i + 1, Len(s)), sep)
  ELSE <<s>>

\* What open(name, "r") makes of the line ends of a file: universal newlines,
\* a carriage return with or without a following newline reads as a newline.
UniversalNewlines(s) ==
  LET dropped == ""
      read == [i \in 1..Len(s) |->
                 IF s[i] = NL /\ i > 1 /\ s[i - 1] = CR THEN dropped
                 ELSE IF s[i] = CR THEN NL ELSE s[i]]
  IN  SelectSeq(read, LAMBDA c : c # dropped)

\* The lines of a text that has been read, each keeping its newline.
RECURSIVE LinesOf(_)
LinesOf(s) ==
  IF s = <<>> THEN <<>>
  ELSE IF \E i \in 1..Len(s) : s[i] = NL
       THEN LET i == CHOOSE k \in 1..Len(s) : s[k] = NL /\ \A j \in 1..(k - 1) : s[j] # NL
            IN  <<SubSeq(s, 1, i)>> \o LinesOf(SubSeq(s, i + 1, Len(s)))
       ELSE <<s>>

\* open(name, "r") ... f.readlines() on a file holding s.
ReadLines(s) == LinesOf(UniversalNewlines(s))

\* "".join(parts)
RECURSIVE Join(_)
Join(parts) == IF parts = <<>> THEN <<>> ELSE Head(parts) \o Join(Tail(parts))

\* needle in haystack (substring test)
Contains(haystack, needle) ==
  \E i \in 0..(Len(haystack) - Len(needle)) :
     SubSeq(haystack, i + 1, i + Len(needle)) = needle

\* str.lower() of one character, as pairs (character, its lower case): every
\* character a string of this module can hold whose lower case is another
\* such character.
LowerPairs ==
  {<<"A", "a">>, <<"B", "b">>, <<"C", "c">>, <<"D", "d">>, <<"E", "e">>, <<"F", "f">>,
   <<"G", "g">>, <<"H", "h">>, <<"I", "i">>, <<"J", "j">>, <<"K", "k">>, <<"L", "l">>,
   <<"M", "m">>, <<"N", "n">>, <<"O", "o">>, <<"P", "p">>, <<"Q", "q">>, <<"R", "r">>,
   <<"S", "s">>, <<"T", "t">>, <<"U", "u">>, <<"V", "v">>, <<"W", "w">>, <<"X", "x">>,
   <<"Y", "y">>, <<"Z", "z">>, <<"À", "à">>, <<"Á", "á">>, <<"Â", "â">>, <<"Ã", "ã">>,
   <<"Ä", "ä">>, <<"Å", "å">>, <<"Æ", "æ">>, <<"Ç", "ç">>, <<"È", "è">>, <<"É", "é">>,
   <<"Ê", "ê">>, <<"Ë", "ë">>, <<"Ì", "ì">>, <<"Í", "í">>, <<"Î", "î">>, <<"Ï", "ï">>,
   <<"Ð", "ð">>, <<"Ñ", "ñ">>, <<"Ò", "ò">>, <<"Ó", "ó">>, <<"Ô", "ô">>, <<"Õ", "õ">>,
   <<"Ö", "ö">>, <<"Ø", "ø">>, <<"Ù", "ù">>, <<"Ú", "ú">>, <<"Û", "û">>, <<"Ü", "ü">>,
   <<"Ý", "ý">>, <<"Þ", "þ">>, <<"Ƃ", "ƃ">>, <<"Ƅ", "ƅ">>, <<"Ƈ", "ƈ">>, <<"Ƌ", "ƌ">>,
   <<"Ǝ", "ǝ">>, <<"Ƒ", "ƒ">>, <<"Ƙ", "ƙ">>, <<"Ơ", "ơ">>, <<"Ƣ", "ƣ">>, <<"Ƥ", "ƥ">>,
   <<"Ʀ", "ʀ">>, <<"Ƨ", "ƨ">>, <<"Ʃ", "ʃ">>, <<"Ƭ", "ƭ">>, <<"Ʈ", "ʈ">>, <<"Ư", "ư">>,
   <<"Ʊ", "ʊ">>, <<"Ʋ", "ʋ">>, <<"Ƴ", "ƴ">>, <<"Ƶ", "ƶ">>, <<"Ʒ", "ʒ">>, <<"Ƹ", "ƹ">>,
   <<"Ƽ", "ƽ">>, <<"Ǆ", "ǆ">>, <<"ǅ", "ǆ">>, <<"Ǉ", "ǉ">>, <<"ǈ", "ǉ">>, <<"Ǌ", "ǌ">>,
   <<"ǋ", "ǌ">>, <<"Ǎ", "ǎ">>, <<"Ǐ", "ǐ">>, <<"Ǒ", "ǒ">>, <<"Ǔ", "ǔ">>, <<"Ǖ", "ǖ">>,
   <<"Ǘ", "ǘ">>, <<"Ǚ", "ǚ">>, <<"Ǜ", "ǜ">>, <<"Ǟ", "ǟ">>, <<"Ǡ", "ǡ">>, <<"Ǣ", "ǣ">>,
   <<"Ǥ", "ǥ">>, <<"Ǧ", "ǧ">>, <<"Ǩ", "ǩ">>, <<"Ǫ", "ǫ">>, <<"Ǭ", "ǭ">>, <<"Ǯ", "ǯ">>,
   <<"Ǳ", "ǳ">>, <<"ǲ", "ǳ">>, <<"Ǵ", "ǵ">>, <<"Ƕ", "ƕ">>, <<"Ƿ", "ƿ">>, <<"Ǹ", "ǹ">>,
   <<"Ǻ", "ǻ">>, <<"Ǽ", "ǽ">>, <<"Ǿ", "ǿ">>, <<"Ά", "ά">>, <<"Έ", "έ">>, <<"Ή", "ή">>,
   <<"Ί", "ί">>, <<"Ό", "ό">>, <<"Ύ", "ύ">>, <<"Ώ", "ώ">>, <<"Α", "α">>, <<"Β", "β">>,
   <<"Γ", "γ">>, <<"Δ", "δ">>, <<"Ε", "ε">>, <<"Ζ", "ζ">>, <<"Η", "η">>, <<"Θ", "θ">>,
   <<"Ι", "ι">>, <<"Κ", "κ">>, <<"Λ", "λ">>, <<"Μ", "μ">>, <<"Ν", "ν">>, <<"Ξ", "ξ">>,
   <<"Ο", "ο">>, <<"Π", "π">>, <<"Ρ", "ρ">>, <<"Σ", "σ">>, <<"Τ", "τ">>, <<"Υ", "υ">>,
   <<"Φ", "φ">>, <<"Χ", "χ">>, <<"Ψ", "ψ">>, <<"Ω", "ω">>, <<"Ϊ", "ϊ">>, <<"Ϋ", "ϋ">>,
   <<"Ϗ", "ϗ">>, <<"Ϙ", "ϙ">>, <<"Ϛ", "ϛ">>, <<"Ϝ", "ϝ">>, <<"Ϟ", "ϟ">>, <<"Ϡ", "ϡ">>,
   <<"Ϣ", "ϣ">>, <<"Ϥ", "ϥ">>, <<"Ϧ", "ϧ">>, <<"Ϩ", "ϩ">>, <<"Ϫ", "ϫ">>, <<"Ϭ", "ϭ">>,
   <<"Ϯ", "ϯ">>, <<"ϴ", "θ">>, <<"Ϸ", "ϸ">>, <<"Ϲ", "ϲ">>, <<"Ϻ", "ϻ">>, <<"Ҁ", "ҁ">>,
   <<"Ҋ", "ҋ">>, <<"Ҍ", "ҍ">>, <<"Ҏ", "ҏ">>, <<"Ґ", "ґ">>, <<"Ғ", "ғ">>, <<"Ҕ", "ҕ">>,
   <<"Җ", "җ">>, <<"Ҙ", "ҙ">>, <<"Қ", "қ">>, <<"Ҝ", "ҝ">>, <<"Ҟ", "ҟ">>, <<"Ҡ", "ҡ">>,
   <<"Ң", "ң">>, <<"Ҥ", "ҥ">>, <<"Ҧ", "ҧ">>, <<"Ҩ", "ҩ">>, <<"Ҫ", "ҫ">>, <<"Ҭ", "ҭ">>,
   <<"Ү", "ү">>, <<"Ұ", "ұ">>, <<"Ҳ", "ҳ">>, <<"Ҵ", "ҵ">>, <<"Ҷ", "ҷ">>, <<"Ҹ", "ҹ">>,
   <<"Һ", "һ">>, <<"Ҽ", "ҽ">>, <<"Ҿ", "ҿ">>, <<"Ӏ", "ӏ">>, <<"Ӂ", "ӂ">>, <<"Ӄ", "ӄ">>,
   <<"Ӆ", "ӆ">>, <<"Ӈ", "ӈ">>, <<"Ӊ", "ӊ">>, <<"Ӌ", "ӌ">>, <<"Ӎ", "ӎ">>, <<"Ӑ", "ӑ">>,
   <<"Ӓ", "ӓ">>, <<"Ӕ", "ӕ">>, <<"Ӗ", "ӗ">>, <<"Ә", "ә">>, <<"Ӛ", "ӛ">>, <<"Ӝ", "ӝ">>,
   <<"Ӟ", "ӟ">>, <<"Ӡ", "ӡ">>, <<"Ӣ", "ӣ">>, <<"Ӥ", "ӥ">>, <<"Ӧ", "ӧ">>, <<"Ө", "ө">>,
   <<"Ӫ", "ӫ">>, <<"Ӭ", "ӭ">>, <<"Ӯ", "ӯ">>, <<"Ӱ", "ӱ">>, <<"Ӳ", "ӳ">>, <<"Ӵ", "ӵ">>,
   <<"Ӷ", "ӷ">>, <<"Ӹ", "ӹ">>, <<"Ӻ", "ӻ">>, <<"Ӽ", "ӽ">>, <<"Ӿ", "ӿ">>, <<"Ꮀ", "ꮀ">>,
   <<"Ꮁ", "ꮁ">>, <<"Ꮂ", "ꮂ">>, <<"Ꮃ", "ꮃ">>, <<"Ꮄ", "ꮄ">>, <<"Ꮅ", "ꮅ">>, <<"Ꮆ", "ꮆ">>,
   <<"Ꮇ", "ꮇ">>, <<"Ꮈ", "ꮈ">>, <<"Ꮉ", "ꮉ">>, <<"Ꮊ", "ꮊ">>, <<"Ꮋ", "ꮋ">>, <<"Ꮌ", "ꮌ">>,
   <<"Ꮍ", "ꮍ">>, <<"Ꮎ", "ꮎ">>, <<"Ꮏ", "ꮏ">>, <<"Ꮐ", "ꮐ">>, <<"Ꮑ", "ꮑ">>, <<"Ꮒ", "ꮒ">>,
   <<"Ꮓ", "ꮓ">>, <<"Ꮔ", "ꮔ">>, <<"Ꮕ", "ꮕ">>, <<"Ꮖ", "ꮖ">>, <<"Ꮗ", "ꮗ">>, <<"Ꮘ", "ꮘ">>,
   <<"Ꮙ", "ꮙ">>, <<"Ꮚ", "ꮚ">>, <<"Ꮛ", "ꮛ">>, <<"Ꮜ", "ꮜ">>, <<"Ꮝ", "ꮝ">>, <<"Ꮞ", "ꮞ">>,
   <<"Ꮟ", "ꮟ">>, <<"Ꮠ", "ꮠ">>, <<"Ꮡ", "ꮡ">>, <<"Ꮢ", "ꮢ">>, <<"Ꮣ", "ꮣ">>, <<"Ꮤ", "ꮤ">>,
   <<"Ꮥ", "ꮥ">>, <<"Ꮦ", "ꮦ">>, <<"Ꮧ", "ꮧ">>, <<"Ꮨ", "ꮨ">>, <<"Ꮩ", "ꮩ">>, <<"Ꮪ", "ꮪ">>,
   <<"Ꮫ", "ꮫ">>, <<"Ꮬ", "ꮬ">>, <<"Ꮭ", "ꮭ">>, <<"Ꮮ", "ꮮ">>, <<"Ꮯ", "ꮯ">>, <<"Ꮰ", "ꮰ">>,
   <<"Ꮱ", "ꮱ">>, <<"Ꮲ", "ꮲ">>, <<"Ꮳ", "ꮳ">>, <<"Ꮴ", "ꮴ">>, <<"Ꮵ", "ꮵ">>, <<"Ꮶ", "ꮶ">>,
   <<"Ꮷ", "ꮷ">>, <<"Ꮸ", "ꮸ">>, <<"Ꮹ", "ꮹ">>, <<"Ꮺ", "ꮺ">>, <<"Ꮻ", "ꮻ">>, <<"Ꮼ", "ꮼ">>,
   <<"Ꮽ", "ꮽ">>, <<"Ꮾ", "ꮾ">>, <<"Ꮿ", "ꮿ">>, <<"Ᏸ", "ᏸ">>, <<"Ᏹ", "ᏹ">>, <<"Ᏺ", "ᏺ">>,
   <<"Ᏻ", "ᏻ">>, <<"Ᏼ", "ᏼ">>, <<"Ᏽ", "ᏽ">>, <<"Ა", "ა">>, <<"Ბ", "ბ">>, <<"Გ", "გ">>,
   <<"Დ", "დ">>, <<"Ე", "ე">>, <<"Ვ", "ვ">>, <<"Ზ", "ზ">>, <<"Თ", "თ">>, <<"Ი", "ი">>,
   <<"Კ", "კ">>, <<"Ლ", "ლ">>, <<"Მ", "მ">>, <<"Ნ", "ნ">>, <<"Ო", "ო">>, <<"Პ", "პ">>,
   <<"Ჟ", "ჟ">>, <<"Რ", "რ">>, <<"Ს", "ს">>, <<"Ტ", "ტ">>, <<"Უ", "უ">>, <<"Ფ", "ფ">>,
   <<"Ქ", "ქ">>, <<"Ღ", "ღ">>, <<"Ყ", "ყ">>, <<"Შ", "შ">>, <<"Ჩ", "ჩ">>, <<"Ც", "ც">>,
   <<"Ძ", "ძ">>, <<"Წ", "წ">>, <<"Ჭ", "ჭ">>, <<"Ხ", "ხ">>, <<"Ჯ", "ჯ">>, <<"Ჰ", "ჰ">>,
   <<"Ჱ", "ჱ">>, <<"Ჲ", "ჲ">>, <<"Ჳ", "ჳ">>, <<"Ჴ", "ჴ">>, <<"Ჵ", "ჵ">>, <<"Ჶ", "ჶ">>,
   <<"Ჷ", "ჷ">>, <<"Ჸ", "ჸ">>, <<"Ჹ", "ჹ">>, <<"Ჺ", "ჺ">>, <<"Ჽ", "ჽ">>, <<"Ჾ", "ჾ">>,
   <<"Ჿ", "ჿ">>, <<"Ẁ", "ẁ">>, <<"Ẃ", "ẃ">>, <<"Ẅ", "ẅ">>, <<"Ẇ", "ẇ">>, <<"Ẉ", "ẉ">>,
   <<"Ẋ", "ẋ">>, <<"Ẍ", "ẍ">>, <<"Ẏ", "ẏ">>, <<"Ẑ", "ẑ">>, <<"Ẓ", "ẓ">>, <<"Ẕ", "ẕ">>,
   <<"ẞ", "ß">>, <<"Ạ", "ạ">>, <<"Ả", "ả">>, <<"Ấ", "ấ">>, <<"Ầ", "ầ">>, <<"Ẩ", "ẩ">>,
   <<"Ẫ", "ẫ">>, <<"Ậ", "ậ">>, <<"Ắ", "ắ">>, <<"Ằ", "ằ">>, <<"Ẳ", "ẳ">>, <<"Ẵ", "ẵ">>,
   <<"Ặ", "ặ">>, <<"Ẹ", "ẹ">>, <<"Ẻ", "ẻ">>, <<"Ẽ", "ẽ">>, <<"Ế", "ế">>, <<"Ề", "ề">>,
   <<"Ể", "ể">>, <<"Ễ", "ễ">>, <<"Ệ", "ệ">>, <<"Ỉ", "ỉ">>, <<"Ị", "ị">>, <<"Ọ", "ọ">>,
   <<"Ỏ", "ỏ">>, <<"Ố", "ố">>, <<"Ồ", "ồ">>, <<"Ổ", "ổ">>, <<"Ỗ", "ỗ">>, <<"Ộ", "ộ">>,
   <<"Ớ", "ớ">>, <<"Ờ", "ờ">>, <<"Ở", "ở">>, <<"Ỡ", "ỡ">>, <<"Ợ", "ợ">>, <<"Ụ", "ụ">>,
   <<"Ủ", "ủ">>, <<"Ứ", "ứ">>, <<"Ừ", "ừ">>, <<"Ử", "ử">>, <<"Ữ", "ữ">>, <<"Ự", "ự">>,
   <<"Ỳ", "ỳ">>, <<"Ỵ", "ỵ">>, <<"Ỷ", "ỷ">>, <<"Ỹ", "ỹ">>, <<"Ỻ", "ỻ">>, <<"Ỽ", "ỽ">>,
   <<"Ỿ", "ỿ">>, <<"ᾈ", "ᾀ">>, <<"ᾉ", "ᾁ">>, <<"ᾊ", "ᾂ">>, <<"ᾋ", "ᾃ">>, <<"ᾌ", "ᾄ">>,
   <<"ᾍ", "ᾅ">>, <<"ᾎ", "ᾆ">>, <<"ᾏ", "ᾇ">>, <<"ᾘ", "ᾐ">>, <<"ᾙ", "ᾑ">>, <<"ᾚ", "ᾒ">>,
   <<"ᾛ", "ᾓ">>, <<"ᾜ", "ᾔ">>, <<"ᾝ", "ᾕ">>, <<"ᾞ", "ᾖ">>, <<"ᾟ", "ᾗ">>, <<"ᾨ", "ᾠ">>,
   <<"ᾩ", "ᾡ">>, <<"ᾪ", "ᾢ">>, <<"ᾫ", "ᾣ">>, <<"ᾬ", "ᾤ">>, <<"ᾭ", "ᾥ">>, <<"ᾮ", "ᾦ">>,
   <<"ᾯ", "ᾧ">>, <<"Ᾰ", "ᾰ">>, <<"Ᾱ", "ᾱ">>, <<"ᾼ", "ᾳ">>, <<"ῌ", "ῃ">>, <<"Ῐ", "ῐ">>,
   <<"Ῑ", "ῑ">>, <<"Ῠ", "ῠ">>, <<"Ῡ", "ῡ">>, <<"Ῥ", "ῥ">>, <<"ῼ", "ῳ">>, <<"Ↄ", "ↄ">>,
   <<"Ⓐ", "ⓐ">>, <<"Ⓑ", "ⓑ">>, <<"Ⓒ", "ⓒ">>, <<"Ⓓ", "ⓓ">>, <<"Ⓔ", "ⓔ">>, <<"Ⓕ", "ⓕ">>,
   <<"Ⓖ", "ⓖ">>, <<"Ⓗ", "ⓗ">>, <<"Ⓘ", "ⓘ">>, <<"Ⓙ", "ⓙ">>, <<"Ⓚ", "ⓚ">>, <<"Ⓛ", "ⓛ">>,
   <<"Ⓜ", "ⓜ">>, <<"Ⓝ", "ⓝ">>, <<"Ⓞ", "ⓞ">>, <<"Ⓟ", "ⓟ">>, <<"Ⓠ", "ⓠ">>, <<"Ⓡ", "ⓡ">>,
   <<"Ⓢ", "ⓢ">>, <<"Ⓣ", "ⓣ">>, <<"Ⓤ", "ⓤ">>, <<"Ⓥ", "ⓥ">>, <<"Ⓦ", "ⓦ">>, <<"Ⓧ", "ⓧ">>,
   <<"Ⓨ", "ⓨ">>, <<"Ⓩ", "ⓩ">>, <<"Ⲁ", "ⲁ">>, <<"Ⲃ", "ⲃ">>, <<"Ⲅ", "ⲅ">>, <<"Ⲇ", "ⲇ">>,
   <<"Ⲉ", "ⲉ">>, <<"Ⲋ", "ⲋ">>, <<"Ⲍ", "ⲍ">>, <<"Ⲏ", "ⲏ">>, <<"Ⲑ", "ⲑ">>, <<"Ⲓ", "ⲓ">>,
   <<"Ⲕ", "ⲕ">>, <<"Ⲗ", "ⲗ">>, <<"Ⲙ", "ⲙ">>, <<"Ⲛ", "ⲛ">>, <<"Ⲝ", "ⲝ">>, <<"Ⲟ", "ⲟ">>,
   <<"Ⲡ", "ⲡ">>, <<"Ⲣ", "ⲣ">>, <<"Ⲥ", "ⲥ">>, <<"Ⲧ", "ⲧ">>, <<"Ⲩ", "ⲩ">>, <<"Ⲫ", "ⲫ">>,
   <<"Ⲭ", "ⲭ">>, <<"Ⲯ", "ⲯ">>, <<"Ⲱ", "ⲱ">>, <<"Ⲳ", "ⲳ">>, <<"Ⲵ", "ⲵ">>, <<"Ⲷ", "ⲷ">>,
   <<"Ⲹ", "ⲹ">>, <<"Ⲻ", "ⲻ">>, <<"Ⲽ", "ⲽ">>, <<"Ⲿ", "ⲿ">>, <<"Ⳁ", "ⳁ">>, <<"Ⳃ", "ⳃ">>,
   <<"Ⳅ", "ⳅ">>, <<"Ⳇ", "ⳇ">>, <<"Ⳉ", "ⳉ">>, <<"Ⳋ", "ⳋ">>, <<"Ⳍ", "ⳍ">>, <<"Ⳏ", "ⳏ">>,
   <<"Ⳑ", "ⳑ">>, <<"Ⳓ", "ⳓ">>, <<"Ⳕ", "ⳕ">>, <<"Ⳗ", "ⳗ">>, <<"Ⳙ", "ⳙ">>, <<"Ⳛ", "ⳛ">>,
   <<"Ⳝ", "ⳝ">>, <<"Ⳟ", "ⳟ">>, <<"Ⳡ", "ⳡ">>, <<"Ⳣ", "ⳣ">>, <<"Ⳬ", "ⳬ">>, <<"Ⳮ", "ⳮ">>,
   <<"Ⳳ", "ⳳ">>, <<"Ꚁ", "ꚁ">>, <<"Ꚃ", "ꚃ">>, <<"Ꚅ", "ꚅ">>, <<"Ꚇ", "ꚇ">>, <<"Ꚉ", "ꚉ">>,
   <<"Ꚋ", "ꚋ">>, <<"Ꚍ", "ꚍ">>, <<"Ꚏ", "ꚏ">>, <<"Ꚑ", "ꚑ">>, <<"Ꚓ", "ꚓ">>, <<"Ꚕ", "ꚕ">>,
   <<"Ꚗ", "ꚗ">>, <<"Ꚙ", "ꚙ">>, <<"Ꚛ", "ꚛ">>, <<"Ꞁ", "ꞁ">>, <<"Ꞃ", "ꞃ">>, <<"Ꞅ", "ꞅ">>,
   <<"Ꞇ", "ꞇ">>, <<"Ꞌ", "ꞌ">>, <<"Ꞑ", "ꞑ">>, <<"Ꞓ", "ꞓ">>, <<"Ꞗ", "ꞗ">>, <<"Ꞙ", "ꞙ">>,
   <<"Ꞛ", "ꞛ">>, <<"Ꞝ", "ꞝ">>, <<"Ꞟ", "ꞟ">>, <<"Ꞡ", "ꞡ">>, <<"Ꞣ", "ꞣ">>, <<"Ꞥ", "ꞥ">>,
   <<"Ꞧ", "ꞧ">>, <<"Ꞩ", "ꞩ">>, <<"Ʞ", "ʞ">>, <<"Ʇ", "ʇ">>, <<"Ʝ", "ʝ">>, <<"Ꞵ", "ꞵ">>,
   <<"Ꞷ", "ꞷ">>, <<"Ꞹ", "ꞹ">>, <<"Ꞻ", "ꞻ">>, <<"Ꞽ", "ꞽ">>, <<"Ꞿ", "ꞿ">>, <<"Ꟁ", "ꟁ">>,
   <<"Ꟃ", "ꟃ">>, <<"Ꞔ", "ꞔ">>, <<"Ʂ", "ʂ">>, <<"Ᶎ", "ᶎ">>, <<"Ꟈ", "ꟈ">>, <<"Ꟊ", "ꟊ">>,
   <<"Ꟑ", "ꟑ">>, <<"Ꟗ", "ꟗ">>, <<"Ꟙ", "ꟙ">>, <<"Ꟶ", "ꟶ">>}

\* The characters whose lower case is a character that a string of this
\* module cannot hold; such a character is written as its code point, so
\* "U+0253" stands for the one character U+0253.
LowerPairsByCodePoint ==
  {<<"Ɓ", "U+0253">>, <<"Ɔ", "U+0254">>, <<"Ɖ", "U+0256">>, <<"Ɗ", "U+0257">>,
   <<"Ə", "U+0259">>, <<"Ɛ", "U+025B">>, <<"Ɠ", "U+0260">>, <<"Ɣ", "U+0263">>,
   <<"Ɩ", "U+0269">>, <<"Ɨ", "U+0268">>, <<"Ɯ", "U+026F">>, <<"Ɲ", "U+0272">>,
   <<"Ɵ", "U+0275">>, <<"Ͻ", "U+037B">>, <<"Ͼ", "U+037C">>, <<"Ͽ", "U+037D">>,
   <<"Ⴀ", "U+2D00">>, <<"Ⴁ", "U+2D01">>, <<"Ⴂ", "U+2D02">>, <<"Ⴃ", "U+2D03">>,
   <<"Ⴄ", "U+2D04">>, <<"Ⴅ", "U+2D05">>, <<"Ⴆ", "U+2D06">>, <<"Ⴇ", "U+2D07">>,
   <<"Ⴈ", "U+2D08">>, <<"Ⴉ", "U+2D09">>, <<"Ⴊ", "U+2D0A">>, <<"Ⴋ", "U+2D0B">>,
   <<"Ⴌ", "U+2D0C">>, <<"Ⴍ", "U+2D0D">>, <<"Ⴎ", "U+2D0E">>, <<"Ⴏ", "U+2D0F">>,
   <<"Ⴐ", "U+2D10">>, <<"Ⴑ", "U+2D11">>, <<"Ⴒ", "U+2D12">>, <<"Ⴓ", "U+2D13">>,
   <<"Ⴔ", "U+2D14">>, <<"Ⴕ", "U+2D15">>, <<"Ⴖ", "U+2D16">>, <<"Ⴗ", "U+2D17">>,
   <<"Ⴘ", "U+2D18">>, <<"Ⴙ", "U+2D19">>, <<"Ⴚ", "U+2D1A">>, <<"Ⴛ", "U+2D1B">>,
   <<"Ⴜ", "U+2D1C">>, <<"Ⴝ", "U+2D1D">>, <<"Ⴞ", "U+2D1E">>, <<"Ⴟ", "U+2D1F">>,
   <<"Ⴠ", "U+2D20">>, <<"Ⴡ", "U+2D21">>, <<"Ⴢ", "U+2D22">>, <<"Ⴣ", "U+2D23">>,
   <<"Ⴤ", "U+2D24">>, <<"Ⴥ", "U+2D25">>, <<"Ⴧ", "U+2D27">>, <<"Ⴭ", "U+2D2D">>,
   <<"Ꭰ", "U+AB70">>, <<"Ꭱ", "U+AB71">>, <<"Ꭲ", "U+AB72">>, <<"Ꭳ", "U+AB73">>,
   <<"Ꭴ", "U+AB74">>, <<"Ꭵ", "U+AB75">>, <<"Ꭶ", "U+AB76">>, <<"Ꭷ", "U+AB77">>,
   <<"Ꭸ", "U+AB78">>, <<"Ꭹ", "U+AB79">>, <<"Ꭺ", "U+AB7A">>, <<"Ꭻ", "U+AB7B">>,
   <<"Ꭼ", "U+AB7C">>, <<"Ꭽ", "U+AB7D">>, <<"Ꭾ", "U+AB7E">>, <<"Ꭿ", "U+AB7F">>,
   <<"Ὰ", "U+1F70">>, <<"Ά", "U+1F71">>, <<"Ὲ", "U+1F72">>, <<"Έ", "U+1F73">>,
   <<"Ὴ", "U+1F74">>, <<"Ή", "U+1F75">>, <<"Ὶ", "U+1F76">>, <<"Ί", "U+1F77">>,
   <<"Ὺ", "U+1F7A">>, <<"Ύ", "U+1F7B">>, <<"Ὸ", "U+1F78">>, <<"Ό", "U+1F79">>,
   <<"Ὼ", "U+1F7C">>, <<"Ώ", "U+1F7D">>, <<"Ɥ", "U+0265">>, <<"Ɦ", "U+0266">>,
   <<"Ɜ", "U+025C">>, <<"Ɡ", "U+0261">>, <<"Ɬ", "U+026C">>, <<"Ɪ", "U+026A">>,
   <<"Ꭓ", "U+AB53">>}

LowerTable ==
  [c \in {p[1] : p \in LowerPairs \cup LowerPairsByCodePoint} |->
     (CHOOSE p \in LowerPairs \cup LowerPairsByCodePoint : p[1] = c)[2]]

LowerChar(c) == IF c \in DOMAIN LowerTable THEN LowerTable[c] ELSE c

\* The cased characters that are not case-ignorable, and the case-ignorable
\* characters: str.lower() looks at them around a capital sigma.  (The grave
\* accent is case-ignorable too; a string of this module cannot hold it.)
CasedLetters ==
  {"A", "B", "C", "D", "E", "F", "G", "H", "I", "J", "K", "L", "M", "N", "O", "P", "Q", "R",
   "S", "T", "U", "V", "W", "X", "Y", "Z", "a", "b", "c", "d", "e", "f", "g", "h", "i", "j",
   "k", "l", "m", "n", "o", "p", "q", "r", "s", "t", "u", "v", "w", "x", "y", "z", "ª", "µ",
   "º", "À", "Á", "Â", "Ã", "Ä", "Å", "Æ", "Ç", "È", "É", "Ê", "Ë", "Ì", "Í", "Î", "Ï", "Ð",
   "Ñ", "Ò", "Ó", "Ô", "Õ", "Ö", "Ø", "Ù", "Ú", "Û", "Ü", "Ý", "Þ", "ß", "à", "á", "â", "ã",
   "ä", "å", "æ", "ç", "è", "é", "ê", "ë", "ì", "í", "î", "ï", "ð", "ñ", "ò", "ó", "ô", "õ",
   "ö", "ø", "ù", "ú", "û", "ü", "ý", "þ", "ÿ", "ƀ", "Ɓ", "Ƃ", "ƃ", "Ƅ", "ƅ", "Ɔ", "Ƈ", "ƈ",
   "Ɖ", "Ɗ", "Ƌ", "ƌ", "ƍ", "Ǝ", "Ə", "Ɛ", "Ƒ", "ƒ", "Ɠ", "Ɣ", "ƕ", "Ɩ", "Ɨ", "Ƙ", "ƙ", "ƚ",
   "ƛ", "Ɯ", "Ɲ", "ƞ", "Ɵ", "Ơ", "ơ", "Ƣ", "ƣ", "Ƥ", "ƥ", "Ʀ", "Ƨ", "ƨ", "Ʃ", "ƪ", "ƫ", "Ƭ",
   "ƭ", "Ʈ", "Ư", "ư", "Ʊ", "Ʋ", "Ƴ", "ƴ", "Ƶ", "ƶ", "Ʒ", "Ƹ", "ƹ", "ƺ", "Ƽ", "ƽ", "ƾ", "ƿ",
   "Ǆ", "ǅ", "ǆ", "Ǉ", "ǈ", "ǉ", "Ǌ", "ǋ", "ǌ", "Ǎ", "ǎ", "Ǐ", "ǐ", "Ǒ", "ǒ", "Ǔ", "ǔ", "Ǖ",
   "ǖ", "Ǘ", "ǘ", "Ǚ", "ǚ", "Ǜ", "ǜ", "ǝ", "Ǟ", "ǟ", "Ǡ", "ǡ", "Ǣ", "ǣ", "Ǥ", "ǥ", "Ǧ", "ǧ",
   "Ǩ", "ǩ", "Ǫ", "ǫ", "Ǭ", "ǭ", "Ǯ", "ǯ", "ǰ", "Ǳ", "ǲ", "ǳ", "Ǵ", "ǵ", "Ƕ", "Ƿ", "Ǹ", "ǹ",
   "Ǻ", "ǻ", "Ǽ", "ǽ", "Ǿ", "ǿ", "ʀ", "ʁ", "ʂ", "ʃ", "ʄ", "ʅ", "ʆ", "ʇ", "ʈ", "ʉ", "ʊ", "ʋ",
   "ʌ", "ʍ", "ʎ", "ʏ", "ʐ", "ʑ", "ʒ", "ʓ", "ʕ", "ʖ", "ʗ", "ʘ", "ʙ", "ʚ", "ʛ", "ʜ", "ʝ", "ʞ",
   "ʟ", "ʠ", "ʡ", "ʢ", "ʣ", "ʤ", "ʥ", "ʦ", "ʧ", "ʨ", "ʩ", "ʪ", "ʫ", "ʬ", "ʭ", "ʮ", "ʯ", "Ά",
   "Έ", "Ή", "Ί", "Ό", "Ύ", "Ώ", "ΐ", "Α", "Β", "Γ", "Δ", "Ε", "Ζ", "Η", "Θ", "Ι", "Κ", "Λ",
   "Μ", "Ν", "Ξ", "Ο", "Π", "Ρ", "Σ", "Τ", "Υ", "Φ", "Χ", "Ψ", "Ω", "Ϊ", "Ϋ", "ά", "έ", "ή",
   "ί", "ΰ", "α", "β", "γ", "δ", "ε", "ζ", "η", "θ", "ι", "κ", "λ", "μ", "ν", "ξ", "ο", "π",
   "ρ", "ς", "σ", "τ", "υ", "φ", "χ", "ψ", "ω", "ϊ", "ϋ", "ό", "ύ", "ώ", "Ϗ", "ϐ", "ϑ", "ϒ",
   "ϓ", "ϔ", "ϕ", "ϖ", "ϗ", "Ϙ", "ϙ", "Ϛ", "ϛ", "Ϝ", "ϝ", "Ϟ", "ϟ", "Ϡ", "ϡ", "Ϣ", "ϣ", "Ϥ",
   "ϥ", "Ϧ", "ϧ", "Ϩ", "ϩ", "Ϫ", "ϫ", "Ϭ", "ϭ", "Ϯ", "ϯ", "ϰ", "ϱ", "ϲ", "ϳ", "ϴ", "ϵ", "Ϸ",
   "ϸ", "Ϲ", "Ϻ", "ϻ", "ϼ", "Ͻ", "Ͼ", "Ͽ", "Ҁ", "ҁ", "Ҋ", "ҋ", "Ҍ", "ҍ", "Ҏ", "ҏ", "Ґ", "ґ",
   "Ғ", "ғ", "Ҕ", "ҕ", "Җ", "җ", "Ҙ", "ҙ", "Қ", "қ", "Ҝ", "ҝ", "Ҟ", "ҟ", "Ҡ", "ҡ", "Ң", "ң",
   "Ҥ", "ҥ", "Ҧ", "ҧ", "Ҩ", "ҩ", "Ҫ", "ҫ", "Ҭ", "ҭ", "Ү", "ү", "Ұ", "ұ", "Ҳ", "ҳ", "Ҵ", "ҵ",
   "Ҷ", "ҷ", "Ҹ", "ҹ", "Һ", "һ", "Ҽ", "ҽ", "Ҿ", "ҿ", "Ӏ", "Ӂ", "ӂ", "Ӄ", "ӄ", "Ӆ", "ӆ", "Ӈ",
   "ӈ", "Ӊ", "ӊ", "Ӌ", "ӌ", "Ӎ", "ӎ", "ӏ", "Ӑ", "ӑ", "Ӓ", "ӓ", "Ӕ", "ӕ", "Ӗ", "ӗ", "Ә", "ә",
   "Ӛ", "ӛ", "Ӝ", "ӝ", "Ӟ", "ӟ", "Ӡ", "ӡ", "Ӣ", "ӣ", "Ӥ", "ӥ", "Ӧ", "ӧ", "Ө", "ө", "Ӫ", "ӫ",
   "Ӭ", "ӭ", "Ӯ", "ӯ", "Ӱ", "ӱ", "Ӳ", "ӳ", "Ӵ", "ӵ", "Ӷ", "ӷ", "Ӹ", "ӹ", "Ӻ", "ӻ", "Ӽ", "ӽ",
   "Ӿ", "ӿ", "ր", "ց", "ւ", "փ", "ք", "օ", "ֆ", "և", "ֈ", "Ⴀ", "Ⴁ", "Ⴂ", "Ⴃ", "Ⴄ", "Ⴅ", "Ⴆ",
   "Ⴇ", "Ⴈ", "Ⴉ", "Ⴊ", "Ⴋ", "Ⴌ", "Ⴍ", "Ⴎ", "Ⴏ", "Ⴐ", "Ⴑ", "Ⴒ", "Ⴓ", "Ⴔ", "Ⴕ", "Ⴖ", "Ⴗ", "Ⴘ",
   "Ⴙ", "Ⴚ", "Ⴛ", "Ⴜ", "Ⴝ", "Ⴞ", "Ⴟ", "Ⴠ", "Ⴡ", "Ⴢ", "Ⴣ", "Ⴤ", "Ⴥ", "Ⴧ", "Ⴭ", "ა", "ბ", "გ",
   "დ", "ე", "ვ", "ზ", "თ", "ი", "კ", "ლ", "მ", "ნ", "ო", "პ", "ჟ", "რ", "ს", "ტ", "უ", "ფ",
   "ქ", "ღ", "ყ", "შ", "ჩ", "ც", "ძ", "წ", "ჭ", "ხ", "ჯ", "ჰ", "ჱ", "ჲ", "ჳ", "ჴ", "ჵ", "ჶ",
   "ჷ", "ჸ", "ჹ", "ჺ", "ჽ", "ჾ", "ჿ", "Ꭰ", "Ꭱ", "Ꭲ", "Ꭳ", "Ꭴ", "Ꭵ", "Ꭶ", "Ꭷ", "Ꭸ", "Ꭹ", "Ꭺ",
   "Ꭻ", "Ꭼ", "Ꭽ", "Ꭾ", "Ꭿ", "Ꮀ", "Ꮁ", "Ꮂ", "Ꮃ", "Ꮄ", "Ꮅ", "Ꮆ", "Ꮇ", "Ꮈ", "Ꮉ", "Ꮊ", "Ꮋ", "Ꮌ",
   "Ꮍ", "Ꮎ", "Ꮏ", "Ꮐ", "Ꮑ", "Ꮒ", "Ꮓ", "Ꮔ", "Ꮕ", "Ꮖ", "Ꮗ", "Ꮘ", "Ꮙ", "Ꮚ", "Ꮛ", "Ꮜ", "Ꮝ", "Ꮞ",
   "Ꮟ", "Ꮠ", "Ꮡ", "Ꮢ", "Ꮣ", "Ꮤ", "Ꮥ", "Ꮦ", "Ꮧ", "Ꮨ", "Ꮩ", "Ꮪ", "Ꮫ", "Ꮬ", "Ꮭ", "Ꮮ", "Ꮯ", "Ꮰ",
   "Ꮱ", "Ꮲ", "Ꮳ", "Ꮴ", "Ꮵ", "Ꮶ", "Ꮷ", "Ꮸ", "Ꮹ", "Ꮺ", "Ꮻ", "Ꮼ", "Ꮽ", "Ꮾ", "Ꮿ", "Ᏸ", "Ᏹ", "Ᏺ",
   "Ᏻ", "Ᏼ", "Ᏽ", "ᏸ", "ᏹ", "ᏺ", "ᏻ", "ᏼ", "ᏽ", "ᲀ", "ᲁ", "ᲂ", "ᲃ", "ᲄ", "ᲅ", "ᲆ", "ᲇ", "ᲈ",
   "Ა", "Ბ", "Გ", "Დ", "Ე", "Ვ", "Ზ", "Თ", "Ი", "Კ", "Ლ", "Მ", "Ნ", "Ო", "Პ", "Ჟ", "Რ", "Ს",
   "Ტ", "Უ", "Ფ", "Ქ", "Ღ", "Ყ", "Შ", "Ჩ", "Ც", "Ძ", "Წ", "Ჭ", "Ხ", "Ჯ", "Ჰ", "Ჱ", "Ჲ", "Ჳ",
   "Ჴ", "Ჵ", "Ჶ", "Ჷ", "Ჸ", "Ჹ", "Ჺ", "Ჽ", "Ჾ", "Ჿ", "ᶀ", "ᶁ", "ᶂ", "ᶃ", "ᶄ", "ᶅ", "ᶆ", "ᶇ",
   "ᶈ", "ᶉ", "ᶊ", "ᶋ", "ᶌ", "ᶍ", "ᶎ", "ᶏ", "ᶐ", "ᶑ", "ᶒ", "ᶓ", "ᶔ", "ᶕ", "ᶖ", "ᶗ", "ᶘ", "ᶙ",
   "ᶚ", "Ẁ", "ẁ", "Ẃ", "ẃ", "Ẅ", "ẅ", "Ẇ", "ẇ", "Ẉ", "ẉ", "Ẋ", "ẋ", "Ẍ", "ẍ", "Ẏ", "ẏ", "Ẑ",
   "ẑ", "Ẓ", "ẓ", "Ẕ", "ẕ", "ẖ", "ẗ", "ẘ", "ẙ", "ẚ", "ẛ", "ẜ", "ẝ", "ẞ", "ẟ", "Ạ", "ạ", "Ả",
   "ả", "Ấ", "ấ", "Ầ", "ầ", "Ẩ", "ẩ", "Ẫ", "ẫ", "Ậ", "ậ", "Ắ", "ắ", "Ằ", "ằ", "Ẳ", "ẳ", "Ẵ",
   "ẵ", "Ặ", "ặ", "Ẹ", "ẹ", "Ẻ", "ẻ", "Ẽ", "ẽ", "Ế", "ế", "Ề", "ề", "Ể", "ể", "Ễ", "ễ", "Ệ",
   "ệ", "Ỉ", "ỉ", "Ị", "ị", "Ọ", "ọ", "Ỏ", "ỏ", "Ố", "ố", "Ồ", "ồ", "Ổ", "ổ", "Ỗ", "ỗ", "Ộ",
   "ộ", "Ớ", "ớ", "Ờ", "ờ", "Ở", "ở", "Ỡ", "ỡ", "Ợ", "ợ", "Ụ", "ụ", "Ủ", "ủ", "Ứ", "ứ", "Ừ",
   "ừ", "Ử", "ử", "Ữ", "ữ", "Ự", "ự", "Ỳ", "ỳ", "Ỵ", "ỵ", "Ỷ", "ỷ", "Ỹ", "ỹ", "Ỻ", "ỻ", "Ỽ",
   "ỽ", "Ỿ", "ỿ", "ᾀ", "ᾁ", "ᾂ", "ᾃ", "ᾄ", "ᾅ", "ᾆ", "ᾇ", "ᾈ", "ᾉ", "ᾊ", "ᾋ", "ᾌ", "ᾍ", "ᾎ",
   "ᾏ", "ᾐ", "ᾑ", "ᾒ", "ᾓ", "ᾔ", "ᾕ", "ᾖ", "ᾗ", "ᾘ", "ᾙ", "ᾚ", "ᾛ", "ᾜ", "ᾝ", "ᾞ", "ᾟ", "ᾠ",
   "ᾡ", "ᾢ", "ᾣ", "ᾤ", "ᾥ", "ᾦ", "ᾧ", "ᾨ", "ᾩ", "ᾪ", "ᾫ", "ᾬ", "ᾭ", "ᾮ", "ᾯ", "ᾰ", "ᾱ", "ᾲ",
   "ᾳ", "ᾴ", "ᾶ", "ᾷ", "Ᾰ", "Ᾱ", "Ὰ", "Ά", "ᾼ", "ι", "ῂ", "ῃ", "ῄ", "ῆ", "ῇ", "Ὲ", "Έ", "Ὴ",
   "Ή", "ῌ", "ῐ", "ῑ", "ῒ", "ΐ", "ῖ", "ῗ", "Ῐ", "Ῑ", "Ὶ", "Ί", "ῠ", "ῡ", "ῢ", "ΰ", "ῤ", "ῥ",
   "ῦ", "ῧ", "Ῠ", "Ῡ", "Ὺ", "Ύ", "Ῥ", "ῲ", "ῳ", "ῴ", "ῶ", "ῷ", "Ὸ", "Ό", "Ὼ", "Ώ", "ῼ", "Ↄ",
   "ↄ", "Ⓐ", "Ⓑ", "Ⓒ", "Ⓓ", "Ⓔ", "Ⓕ", "Ⓖ", "Ⓗ", "Ⓘ", "Ⓙ", "Ⓚ", "Ⓛ", "Ⓜ", "Ⓝ", "Ⓞ", "Ⓟ", "Ⓠ",
   "Ⓡ", "Ⓢ", "Ⓣ", "Ⓤ", "Ⓥ", "Ⓦ", "Ⓧ", "Ⓨ", "Ⓩ", "ⓐ", "ⓑ", "ⓒ", "ⓓ", "ⓔ", "ⓕ", "ⓖ", "ⓗ", "ⓘ",
   "ⓙ", "ⓚ", "ⓛ", "ⓜ", "ⓝ", "ⓞ", "ⓟ", "ⓠ", "ⓡ", "ⓢ", "ⓣ", "ⓤ", "ⓥ", "ⓦ", "ⓧ", "ⓨ", "ⓩ", "Ⲁ",
   "ⲁ", "Ⲃ", "ⲃ", "Ⲅ", "ⲅ", "Ⲇ", "ⲇ", "Ⲉ", "ⲉ", "Ⲋ", "ⲋ", "Ⲍ", "ⲍ", "Ⲏ", "ⲏ", "Ⲑ", "ⲑ", "Ⲓ",
   "ⲓ", "Ⲕ", "ⲕ", "Ⲗ", "ⲗ", "Ⲙ", "ⲙ", "Ⲛ", "ⲛ", "Ⲝ", "ⲝ", "Ⲟ", "ⲟ", "Ⲡ", "ⲡ", "Ⲣ", "ⲣ", "Ⲥ",
   "ⲥ", "Ⲧ", "ⲧ", "Ⲩ", "ⲩ", "Ⲫ", "ⲫ", "Ⲭ", "ⲭ", "Ⲯ", "ⲯ", "Ⲱ", "ⲱ", "Ⲳ", "ⲳ", "Ⲵ", "ⲵ", "Ⲷ",
   "ⲷ", "Ⲹ", "ⲹ", "Ⲻ", "ⲻ", "Ⲽ", "ⲽ", "Ⲿ", "ⲿ", "Ⳁ", "ⳁ", "Ⳃ", "ⳃ", "Ⳅ", "ⳅ", "Ⳇ", "ⳇ", "Ⳉ",
   "ⳉ", "Ⳋ", "ⳋ", "Ⳍ", "ⳍ", "Ⳏ", "ⳏ", "Ⳑ", "ⳑ", "Ⳓ", "ⳓ", "Ⳕ", "ⳕ", "Ⳗ", "ⳗ", "Ⳙ", "ⳙ", "Ⳛ",
   "ⳛ", "Ⳝ", "ⳝ", "Ⳟ", "ⳟ", "Ⳡ", "ⳡ", "Ⳣ", "ⳣ", "ⳤ", "Ⳬ", "ⳬ", "Ⳮ", "ⳮ", "Ⳳ", "ⳳ", "Ꚁ", "ꚁ",
   "Ꚃ", "ꚃ", "Ꚅ", "ꚅ", "Ꚇ", "ꚇ", "Ꚉ", "ꚉ", "Ꚋ", "ꚋ", "Ꚍ", "ꚍ", "Ꚏ", "ꚏ", "Ꚑ", "ꚑ", "Ꚓ", "ꚓ",
   "Ꚕ", "ꚕ", "Ꚗ", "ꚗ", "Ꚙ", "ꚙ", "Ꚛ", "ꚛ", "Ꞁ", "ꞁ", "Ꞃ", "ꞃ", "Ꞅ", "ꞅ", "Ꞇ", "ꞇ", "Ꞌ", "ꞌ",
   "Ɥ", "ꞎ", "Ꞑ", "ꞑ", "Ꞓ", "ꞓ", "ꞔ", "ꞕ", "Ꞗ", "ꞗ", "Ꞙ", "ꞙ", "Ꞛ", "ꞛ", "Ꞝ", "ꞝ", "Ꞟ", "ꞟ",
   "Ꞡ", "ꞡ", "Ꞣ", "ꞣ", "Ꞥ", "ꞥ", "Ꞧ", "ꞧ", "Ꞩ", "ꞩ", "Ɦ", "Ɜ", "Ɡ", "Ɬ", "Ɪ", "ꞯ", "Ʞ", "Ʇ",
   "Ʝ", "Ꭓ", "Ꞵ", "ꞵ", "Ꞷ", "ꞷ", "Ꞹ", "ꞹ", "Ꞻ", "ꞻ", "Ꞽ", "ꞽ", "Ꞿ", "ꞿ", "Ꟁ", "ꟁ", "Ꟃ", "ꟃ",
   "Ꞔ", "Ʂ", "Ᶎ", "Ꟈ", "ꟈ", "Ꟊ", "ꟊ", "Ꟑ", "ꟑ", "ꟓ", "ꟕ", "Ꟗ", "ꟗ", "Ꟙ", "ꟙ", "Ꟶ", "ꟶ", "ꟺ",
   "ꮀ", "ꮁ", "ꮂ", "ꮃ", "ꮄ", "ꮅ", "ꮆ", "ꮇ", "ꮈ", "ꮉ", "ꮊ", "ꮋ", "ꮌ", "ꮍ", "ꮎ", "ꮏ", "ꮐ", "ꮑ",
   "ꮒ", "ꮓ", "ꮔ", "ꮕ", "ꮖ", "ꮗ", "ꮘ", "ꮙ", "ꮚ", "ꮛ", "ꮜ", "ꮝ", "ꮞ", "ꮟ", "ꮠ", "ꮡ", "ꮢ", "ꮣ",
   "ꮤ", "ꮥ", "ꮦ", "ꮧ", "ꮨ", "ꮩ", "ꮪ", "ꮫ", "ꮬ", "ꮭ", "ꮮ", "ꮯ", "ꮰ", "ꮱ", "ꮲ", "ꮳ", "ꮴ", "ꮵ",
   "ꮶ", "ꮷ", "ꮸ", "ꮹ", "ꮺ", "ꮻ", "ꮼ", "ꮽ", "ꮾ", "ꮿ"}

CaseIgnorable ==
  {"'", ".", ":", "^", "¨", "­", "¯", "´", "·", "¸", "ʰ", "ʱ", "ʲ", "ʳ", "ʴ", "ʵ", "ʶ",
   "ʷ", "ʸ", "ʹ", "ʺ", "ʻ", "ʼ", "ʽ", "ʾ", "ʿ", "ˀ", "ˁ", "˂", "˃", "˄", "˅", "ˆ", "ˇ", "ˈ",
   "ˉ", "ˊ", "ˋ", "ˌ", "ˍ", "ˎ", "ˏ", "ː", "ˑ", "˒", "˓", "˔", "˕", "˖", "˗", "˘", "˙", "˚",
   "˛", "˜", "˝", "˞", "˟", "ˠ", "ˡ", "ˢ", "ˣ", "ˤ", "˥", "˦", "˧", "˨", "˩", "˪", "˫", "ˬ",
   "˭", "ˮ", "˯", "˰", "˱", "˲", "˳", "˴", "˵", "˶", "˷", "˸", "˹", "˺", "˻", "˼", "˽", "˾",
   "˿", "΄", "΅", "·", "҃", "҄", "҅", "҆", "҇", "҈", "҉", "֑", "֒", "֓", "֔", "֕", "֖", "֗",
   "֘", "֙", "֚", "֛", "֜", "֝", "֞", "֟", "֠", "֡", "֢", "֣", "֤", "֥", "֦", "֧", "֨", "֩",
   "֪", "֫", "֬", "֭", "֮", "֯", "ְ", "ֱ", "ֲ", "ֳ", "ִ", "ֵ", "ֶ", "ַ", "ָ", "ֹ", "ֺ", "ֻ",
   "ּ", "ֽ", "ֿ", "ׁ", "ׂ", "ׄ", "ׅ", "ׇ", "״", "ۖ", "ۗ", "ۘ", "ۙ", "ۚ", "ۛ", "ۜ", "۝", "۟",
   "۠", "ۡ", "ۢ", "ۣ", "ۤ", "ۥ", "ۦ", "ۧ", "ۨ", "۪", "۫", "۬", "ۭ", "ަ", "ާ", "ި", "ީ", "ު",
   "ޫ", "ެ", "ޭ", "ޮ", "ޯ", "ް", "߫", "߬", "߭", "߮", "߯", "߰", "߱", "߲", "߳", "ߴ", "ߵ", "ߺ",
   "߽", "࢈", "࢐", "࢑", "࢘", "࢙", "࢚", "࢛", "࢜", "࢝", "࢞", "࢟", "ࣉ", "࣊", "࣋", "࣌", "࣍", "࣎",
   "࣏", "࣐", "࣑", "࣒", "࣓", "ࣔ", "ࣕ", "ࣖ", "ࣗ", "ࣘ", "ࣙ", "ࣚ", "ࣛ", "ࣜ", "ࣝ", "ࣞ", "ࣟ", "࣠",
   "࣡", "࣢", "ࣣ", "ࣤ", "ࣥ", "ࣦ", "ࣧ", "ࣨ", "ࣩ", "࣪", "࣫", "࣬", "࣭", "࣮", "࣯", "ࣰ", "ࣱ", "ࣲ",
   "ࣳ", "ࣴ", "ࣵ", "ࣶ", "ࣷ", "ࣸ", "ࣹ", "ࣺ", "ࣻ", "ࣼ", "ࣽ", "ࣾ", "ࣿ", "ঁ", "়", "ু", "ূ", "ৃ",
   "ৄ", "্", "ৢ", "ৣ", "৾", "ઁ", "ં", "઼", "ુ", "ૂ", "ૃ", "ૄ", "ૅ", "ે", "ૈ", "્", "ૢ", "ૣ",
   "ૺ", "ૻ", "ૼ", "૽", "૾", "૿", "ஂ", "ீ", "்", "ಁ", "಼", "ಿ", "ೆ", "ೌ", "್", "ೢ", "ೣ", "ඁ",
   "්", "ි", "ී", "ු", "ූ", "ັ", "ິ", "ີ", "ຶ", "ື", "ຸ", "ູ", "຺", "ົ", "ຼ", "ໆ", "່", "້",
   "໊", "໋", "໌", "ໍ", "ྀ", "ཱྀ", "ྂ", "ྃ", "྄", "྆", "྇", "ྍ", "ྎ", "ྏ", "ྐ", "ྑ", "ྒ", "ྒྷ",
   "ྔ", "ྕ", "ྖ", "ྗ", "ྙ", "ྚ", "ྛ", "ྜ", "ྜྷ", "ྞ", "ྟ", "ྠ", "ྡ", "ྡྷ", "ྣ", "ྤ", "ྥ", "ྦ",
   "ྦྷ", "ྨ", "ྩ", "ྪ", "ྫ", "ྫྷ", "ྭ", "ྮ", "ྯ", "ྰ", "ྱ", "ྲ", "ླ", "ྴ", "ྵ", "ྶ", "ྷ", "ྸ",
   "ྐྵ", "ྺ", "ྻ", "ྼ", "࿆", "ႂ", "ႅ", "ႆ", "ႍ", "ႝ", "ჼ", "឴", "឵", "ិ", "ី", "ឹ", "ឺ", "ុ",
   "ូ", "ួ", "ំ", "៉", "៊", "់", "៌", "៍", "៎", "៏", "័", "៑", "្", "៓", "ៗ", "៝", "ᢅ", "ᢆ",
   "ᢩ", "ᪧ", "᪰", "᪱", "᪲", "᪳", "᪴", "᪵", "᪶", "᪷", "᪸", "᪹", "᪺", "᪻", "᪼", "᪽", "᪾", "ᪿ",
   "ᫀ", "᫁", "᫂", "᫃", "᫄", "᫅", "᫆", "᫇", "᫈", "᫉", "᫊", "᫋", "ᫌ", "ᫍ", "ᫎ", "ᮀ", "ᮁ", "ᮢ",
   "ᮣ", "ᮤ", "ᮥ", "ᮨ", "ᮩ", "᮫", "ᮬ", "ᮭ", "᯦", "ᯨ", "ᯩ", "ᯭ", "ᯯ", "ᯰ", "ᯱ", "᳐", "᳑", "᳒",
   "᳔", "᳕", "᳖", "᳗", "᳘", "᳙", "᳚", "᳛", "᳜", "᳝", "᳞", "᳟", "᳠", "᳢", "᳣", "᳤", "᳥", "᳦",
   "᳧", "᳨", "᳭", "᳴", "᳸", "᳹", "ᶛ", "ᶜ", "ᶝ", "ᶞ", "ᶟ", "ᶠ", "ᶡ", "ᶢ", "ᶣ", "ᶤ", "ᶥ", "ᶦ",
   "ᶧ", "ᶨ", "ᶩ", "ᶪ", "ᶫ", "ᶬ", "ᶭ", "ᶮ", "ᶯ", "ᶰ", "ᶱ", "ᶲ", "ᶳ", "ᶴ", "ᶵ", "ᶶ", "ᶷ", "ᶸ",
   "ᶹ", "ᶺ", "ᶻ", "ᶼ", "ᶽ", "ᶾ", "ᶿ", "᷀", "᷁", "᷂", "᷃", "᷄", "᷅", "᷆", "᷇", "᷈", "᷉", "᷊",
   "᷋", "᷌", "᷍", "᷎", "᷏", "᷐", "᷑", "᷒", "ᷓ", "ᷔ", "ᷕ", "ᷖ", "ᷗ", "ᷘ", "ᷙ", "ᷚ", "ᷛ", "ᷜ",
   "ᷝ", "ᷞ", "ᷟ", "ᷠ", "ᷡ", "ᷢ", "ᷣ", "ᷤ", "ᷥ", "ᷦ", "ᷧ", "ᷨ", "ᷩ", "ᷪ", "ᷫ", "ᷬ", "ᷭ", "ᷮ",
   "ᷯ", "ᷰ", "ᷱ", "ᷲ", "ᷳ", "ᷴ", "᷵", "᷶", "᷷", "᷸", "᷹", "᷺", "᷻", "᷼", "᷽", "᷾", "᷿", "᾽",
   "᾿", "῀", "῁", "῍", "῎", "῏", "῝", "῞", "῟", "῭", "΅", "`", "´", "῾", "ₐ", "ₑ", "ₒ", "ₓ",
   "ₔ", "ₕ", "ₖ", "ₗ", "ₘ", "ₙ", "ₚ", "ₛ", "ₜ", "⃐", "⃑", "⃒", "⃓", "⃔", "⃕", "⃖", "⃗", "⃘",
   "⃙", "⃚", "⃛", "⃜", "⃝", "⃞", "⃟", "⃠", "⃡", "⃢", "⃣", "⃤", "⃥", "⃦", "⃧", "⃨", "⃩", "⃪",
   "⃫", "⃬", "⃭", "⃮", "⃯", "⃰", "⳯", "⳰", "⳱", "ⷠ", "ⷡ", "ⷢ", "ⷣ", "ⷤ", "ⷥ", "ⷦ", "ⷧ", "ⷨ",
   "ⷩ", "ⷪ", "ⷫ", "ⷬ", "ⷭ", "ⷮ", "ⷯ", "ⷰ", "ⷱ", "ⷲ", "ⷳ", "ⷴ", "ⷵ", "ⷶ", "ⷷ", "ⷸ", "ⷹ", "ⷺ",
   "ⷻ", "ⷼ", "ⷽ", "ⷾ", "ⷿ", "゙", "゚", "゛", "゜", "ゝ", "ゞ", "ー", "ヽ", "ヾ", "ꓸ", "ꓹ", "ꓺ", "ꓻ",
   "ꓼ", "ꓽ", "ꚜ", "ꚝ", "ꚞ", "ꚟ", "꛰", "꛱", "ꞈ", "꞉", "꞊", "ꟲ", "ꟳ", "ꟴ", "ꟸ", "ꟹ", "꣄", "ꣅ",
   "꣠", "꣡", "꣢", "꣣", "꣤", "꣥", "꣦", "꣧", "꣨", "꣩", "꣪", "꣫", "꣬", "꣭", "꣮", "꣯", "꣰", "꣱",
   "ꣿ", "ꦀ", "ꦁ", "ꦂ", "꦳", "ꦶ", "ꦷ", "ꦸ", "ꦹ", "ꦼ", "ꦽ", "ꧏ", "ꧥ", "ꧦ", "ꪰ", "ꪲ", "ꪳ", "ꪴ",
   "ꪷ", "ꪸ", "ꪾ", "꪿", "꫁", "ꫝ", "ꫬ", "ꫭ", "ꫳ", "ꫴ", "꫶", "ꯥ", "ꯨ", "꯭", "﮲", "﮳", "﮴", "﮵",
   "﮶", "﮷", "﮸", "﮹", "﮺", "﮻", "﮼", "﮽", "﮾", "﮿", "﯀", "﯁", "﯂", "﻿", "ﾞ", "ﾟ", "￣", "￹",
   "￺", "￻"}

\* Whether the capital sigma at position i ends a word: the nearest
\* character before it that is not case-ignorable is cased, and the nearest
\* one after it, if any, is not.
FinalSigma(s, i) ==
  /\ \E j \in 1..(i - 1) :
        /\ s[j] \in CasedLetters \cup {p[2] : p \in LowerPairsByCodePoint}
        /\ \A k \in (j + 1)..(i - 1) : s[k] \in CaseIgnorable
  /\ ~\E j \in (i + 1)..Len(s) :
        /\ s[j] \in CasedLetters \cup {p[2] : p \in LowerPairsByCodePoint}
        /\ \A k \in (i + 1)..(j - 1) : s[k] \in CaseIgnorable

\* str.lower()
Lower(s) ==
  [i \in 1..Len(s) |-> IF s[i] = "Σ" /\ FinalSigma(s, i) THEN "ς"
                        ELSE LowerChar(s[i])]

\* The decimal digits int() reads, as pairs (character, its value).
DigitPairs ==
  {<<"0", 0>>, <<"1", 1>>, <<"2", 2>>, <<"3", 3>>, <<"4", 4>>, <<"5", 5>>, <<"6", 6>>,
   <<"7", 7>>, <<"8", 8>>, <<"9", 9>>, <<"۰", 0>>, <<"۱", 1>>, <<"۲", 2>>, <<"۳", 3>>,
   <<"۴", 4>>, <<"۵", 5>>, <<"۶", 6>>, <<"۷", 7>>, <<"۸", 8>>, <<"۹", 9>>, <<"߀", 0>>,
   <<"߁", 1>>, <<"߂", 2>>, <<"߃", 3>>, <<"߄", 4>>, <<"߅", 5>>, <<"߆", 6>>, <<"߇", 7>>,
   <<"߈", 8>>, <<"߉", 9>>, <<"০", 0>>, <<"১", 1>>, <<"২", 2>>, <<"৩", 3>>, <<"৪", 4>>,
   <<"৫", 5>>, <<"৬", 6>>, <<"৭", 7>>, <<"৮", 8>>, <<"৯", 9>>, <<"૦", 0>>, <<"૧", 1>>,
   <<"૨", 2>>, <<"૩", 3>>, <<"૪", 4>>, <<"૫", 5>>, <<"૬", 6>>, <<"૭", 7>>, <<"૮", 8>>,
   <<"૯", 9>>, <<"௦", 0>>, <<"௧", 1>>, <<"௨", 2>>, <<"௩", 3>>, <<"௪", 4>>, <<"௫", 5>>,
   <<"௬", 6>>, <<"௭", 7>>, <<"௮", 8>>, <<"௯", 9>>, <<"೦", 0>>, <<"೧", 1>>, <<"೨", 2>>,
   <<"೩", 3>>, <<"೪", 4>>, <<"೫", 5>>, <<"೬", 6>>, <<"೭", 7>>, <<"೮", 8>>, <<"೯", 9>>,
   <<"෦", 0>>, <<"෧", 1>>, <<"෨", 2>>, <<"෩", 3>>, <<"෪", 4>>, <<"෫", 5>>, <<"෬", 6>>,
   <<"෭", 7>>, <<"෮", 8>>, <<"෯", 9>>, <<"໐", 0>>, <<"໑", 1>>, <<"໒", 2>>, <<"໓", 3>>,
   <<"໔", 4>>, <<"໕", 5>>, <<"໖", 6>>, <<"໗", 7>>, <<"໘", 8>>, <<"໙", 9>>, <<"႐", 0>>,
   <<"႑", 1>>, <<"႒", 2>>, <<"႓", 3>>, <<"႔", 4>>, <<"႕", 5>>, <<"႖", 6>>, <<"႗", 7>>,
   <<"႘", 8>>, <<"႙", 9>>, <<"០", 0>>, <<"១", 1>>, <<"២", 2>>, <<"៣", 3>>, <<"៤", 4>>,
   <<"៥", 5>>, <<"៦", 6>>, <<"៧", 7>>, <<"៨", 8>>, <<"៩", 9>>, <<"᧐", 0>>, <<"᧑", 1>>,
   <<"᧒", 2>>, <<"᧓", 3>>, <<"᧔", 4>>, <<"᧕", 5>>, <<"᧖", 6>>, <<"᧗", 7>>, <<"᧘", 8>>,
   <<"᧙", 9>>, <<"᪀", 0>>, <<"᪁", 1>>, <<"᪂", 2>>, <<"᪃", 3>>, <<"᪄", 4>>, <<"᪅", 5>>,
   <<"᪆", 6>>, <<"᪇", 7>>, <<"᪈", 8>>, <<"᪉", 9>>, <<"᪐", 0>>, <<"᪑", 1>>, <<"᪒", 2>>,
   <<"᪓", 3>>, <<"᪔", 4>>, <<"᪕", 5>>, <<"᪖", 6>>, <<"᪗", 7>>, <<"᪘", 8>>, <<"᪙", 9>>,
   <<"᮰", 0>>, <<"᮱", 1>>, <<"᮲", 2>>, <<"᮳", 3>>, <<"᮴", 4>>, <<"᮵", 5>>, <<"᮶", 6>>,
   <<"᮷", 7>>, <<"᮸", 8>>, <<"᮹", 9>>, <<"꣐", 0>>, <<"꣑", 1>>, <<"꣒", 2>>, <<"꣓", 3>>,
   <<"꣔", 4>>, <<"꣕", 5>>, <<"꣖", 6>>, <<"꣗", 7>>, <<"꣘", 8>>, <<"꣙", 9>>, <<"꧐", 0>>,
   <<"꧑", 1>>, <<"꧒", 2>>, <<"꧓", 3>>, <<"꧔", 4>>, <<"꧕", 5>>, <<"꧖", 6>>, <<"꧗", 7>>,
   <<"꧘", 8>>, <<"꧙", 9>>, <<"꧰", 0>>, <<"꧱", 1>>, <<"꧲", 2>>, <<"꧳", 3>>, <<"꧴", 4>>,
   <<"꧵", 5>>, <<"꧶", 6>>, <<"꧷", 7>>, <<"꧸", 8>>, <<"꧹", 9>>, <<"꯰", 0>>, <<"꯱", 1>>,
   <<"꯲", 2>>, <<"꯳", 3>>, <<"꯴", 4>>, <<"꯵", 5>>, <<"꯶", 6>>, <<"꯷", 7>>, <<"꯸", 8>>,
   <<"꯹", 9>>}

Digits == {p[1] : p \in DigitPairs}

DigitTable == [c \in Digits |-> (CHOOSE p \in DigitPairs : p[1] = c)[2]]

DigitVal(c) == DigitTable[c]

\* The whitespace int() ignores around a literal: that of str.strip() without
\* U+001C..U+001F.
IntWhitespace ==
  {TAB, NL, "", FF, CR, " ", "", " ", " "}

IntStrip(s) ==
  LET n == Len(s)
  IN  IF \A i \in 1..n : s[i] \in IntWhitespace THEN <<>>
      ELSE SubSeq(s,
                  CHOOSE i \in 1..n : /\ s[i] \notin IntWhitespace
                                       /\ \A j \in 1..(i - 1) : s[j] \in IntWhitespace,
                  CHOOSE i \in 1..n : /\ s[i] \notin IntWhitespace
                                       /\ \A j \in (i + 1)..n : s[j] \in IntWhitespace)

\* sys.get_int_max_str_digits(): int() raises ValueError for a literal of
\* more decimal digits than this (signs, underscores and the surrounding
\* whitespace do not count).
IntMaxStrDigits == 4300

\* Whether int(s) succeeds: around the literal int() ignores whitespace; the
\* literal is an optional sign, then decimal digits, single underscores
\* allowed between two digits, and no more than IntMaxStrDigits digits.
IsIntLiteral(s) ==
  LET t    == IntStrip(s)
      body == IF t # <<>> /\ Head(t) \in {"-", "+"} THEN Tail(t) ELSE t
  IN  /\ body # <<>>
      /\ \A i \in 1..Len(body) : body[i] \in Digits \cup {"_"}
      /\ body[1] \in Digits /\ body[Len(body)] \in Digits
      /\ \A i \in 1..(Len(body) - 1) : ~(body[i] = "_" /\ body[i + 1] = "_")
      /\ Cardinality({i \in 1..Len(body) : body[i] \in Digits}) <= IntMaxStrDigits

\* The value of a run of digits and underscores.
RECURSIVE DigitsValue(_)
DigitsValue(s) ==
  IF s = <<>> THEN 0
  ELSE IF s[Len(s)] = "_" THEN DigitsValue(SubSeq(s, 1, Len(s) - 1))
  ELSE 10 * DigitsValue(SubSeq(s, 1, Len(s) - 1)) + DigitVal(s[Len(s)])

\* int(s) for a literal accepted by IsIntLiteral.
IntOf(s) ==
  LET t == IntStrip(s)
  IN  IF Head(t) = "-" THEN 0 - DigitsValue(Tail(t))
      ELSE IF Head(t) = "+" THEN DigitsValue(Tail(t))
      ELSE DigitsValue(t)

(***************************************************************************)
(* run_command                                                             *)
(***************************************************************************)
\* An execution of subprocess.run: the child exits with a status, or the
\* call fails otherwise (the output cannot be decoded, the command line
\* holds a NUL byte, the process cannot be spawned).
ExitExec(code, out, err) == [kind |-> "exit", code |-> code, stdout |-> out, stderr |-> err]

ErrorExec == [kind |-> "error", code |-> 0, stdout |-> <<>>, stderr |-> <<>>]

\* What subprocess.run(..., text=True) hands over of a stream the child
\* wrote: the text with universal newlines.
CapturedText(written) == UniversalNewlines(written)

\* The result of run_command: (success, text), or an exception that is not
\* CalledProcessError and so propagates to the caller.
run_command(exec) ==
  IF exec.kind = "exit"
  THEN IF exec.code = 0
       THEN [raised |-> FALSE, success |-> TRUE, text |-> CapturedText(exec.stdout)]
       ELSE [raised |-> FALSE, success |-> FALSE, text |-> CapturedText(exec.stderr)]
  ELSE [raised |-> TRUE, success |-> FALSE, text |-> <<>>]

(***************************************************************************)
(* get_git_status                                                          *)
(***************************************************************************)
NoStatus == [modified |-> <<>>, untracked |-> <<>>, staged |-> <<>>]

\* line[:2]
StatusCode(line) == SubSeq(line, 1, IF Len(line) < 2 THEN Len(line) ELSE 2)

\* line[3:]
FilePath(line) == SubSeq(line, 4, Len(line))

\* One iteration of the loop over the lines.
ClassifyLine(acc, line) ==
  LET status    == StatusCode(line)
      file_path == FilePath(line)
  IN  IF line = <<>> THEN acc
      ELSE IF status = <<"?", "?">>
           THEN [acc EXCEPT !.untracked = Append(@, file_path)]
      ELSE IF status = <<" ", "M">>
           THEN [acc EXCEPT !.modified = Append(@, file_path)]
      ELSE IF status \in {<<"M", " ">>, <<"A", " ">>}
           THEN [acc EXCEPT !.staged = Append(@, file_path)]
      ELSE IF status = <<"M", "M">>
           THEN [acc EXCEPT !.modified = Append(@, file_path),
                            !.staged = Append(@, file_path)]
      ELSE acc

RECURSIVE ClassifyLines(_, _)
ClassifyLines(acc, lines) ==
  IF lines = <<>> THEN acc
  ELSE ClassifyLines(ClassifyLine(acc, Head(lines)), Tail(lines))

\* get_git_status applied to the result of `git status --porcelain`.
get_git_status(res) ==
  IF ~res.success THEN NoStatus
  ELSE ClassifyLines(NoStatus, Split(Strip(res.text), NL))

(***************************************************************************)
(* choose_files_to_add                                                     *)
(***************************************************************************)
\* The tokens of the comprehension: choice.split(",") keeping those with a
\* non-empty strip(), stripped.
RECURSIVE StrippedTokens(_)
StrippedTokens(parts) ==
  IF parts = <<>> THEN <<>>
  ELSE LET x == Strip(Head(parts))
       IN  (IF x = <<>> THEN <<>> ELSE <<x>>) \o StrippedTokens(Tail(parts))

\* A mutant without the lower range check: a negative index counts from the
\* end of the list, as Python indexing does.
RECURSIVE PickIndices_no_lower_check(_, _)
PickIndices_no_lower_check(all_files, indices) ==
  IF indices = <<>> THEN <<>>
  ELSE LET i == Head(indices)
           n == Len(all_files)
       IN  (IF i < n /\ 0 - n <= i
            THEN <<all_files[IF i < 0 THEN n + i + 1 ELSE i + 1]>> ELSE <<>>)
           \o PickIndices_no_lower_check(all_files, Tail(indices))

\* [all_files[i] for i in indices if 0 <= i < len(all_files)]
RECURSIVE PickIndices(_, _)
PickIndices(all_files, indices) ==
  IF indices = <<>> THEN <<>>
  ELSE LET i == Head(indices)
       IN  (IF 0 <= i /\ i < Len(all_files) THEN <<all_files[i + 1]>> ELSE <<>>)
           \o PickIndices(all_files, Tail(indices))

\* A mutant that lists the untracked files before the modified ones.
AllFiles_untracked_first(st) == st.untracked \o st.modified

\* all_files = modified + untracked
AllFiles(st) == st.modified \o st.untracked

\* The else-branch: the numbered selection.  int() of any token raising
\* ValueError abandons the whole comprehension and yields the empty list.
SelectByNumbers(all_files, choice) ==
  LET toks == StrippedTokens(Split(choice, ","))
  IN  IF \E k \in 1..Len(toks) : ~IsIntLiteral(toks[k]) THEN <<>>
      ELSE PickIndices(all_files, [k \in 1..Len(toks) |-> IntOf(toks[k]) - 1])

\* What input() has for the caller when standard input is at its end: no
\* line, but EOFError.  No text is equal to it.
EndOfFile == <<"EOFError">>

\* choose_files_to_add prompts only when there is a file to choose; its
\* input() raises EOFError at the end of standard input.
PromptRaises(st, typed) == AllFiles(st) # <<>> /\ typed = EndOfFile

\* choose_files_to_add given the status it read and the line the user typed.
choose_files_to_add(st, typed) ==
  LET all_files == AllFiles(st)
      choice    == Lower(Strip(typed))
  IN  IF all_files = <<>> THEN <<>>
      ELSE IF choice = <<"q">> THEN <<>>
      ELSE IF choice = <<"a">> THEN all_files
      ELSE SelectByNumbers(all_files, choice)

\* The except-branch of choose_files_to_add is taken: the prompt was
\* answered with something else than "q" and "a", and int() raised ValueError
\* on a token.  (The range filter keeps all_files[i] from raising IndexError.)
InvalidSelection(st, typed) ==
  LET choice == Lower(Strip(typed))
      toks   == StrippedTokens(Split(choice, ","))
  IN  /\ AllFiles(st) # <<>>
      /\ choice \notin {<<"q">>, <<"a">>}
      /\ \E k \in 1..Len(toks) : ~IsIntLiteral(toks[k])

\* The message choose_files_to_add prints on the two paths that print one
\* before returning the empty list.
Printed(st, typed) ==
  IF AllFiles(st) = <<>> THEN "No changes detected."
  ELSE IF InvalidSelection(st, typed) THEN "Invalid selection. No files selected."
  ELSE "none"

(***************************************************************************)
(* Inputs                                                                  *)
(***************************************************************************)
\* Status codes of porcelain lines; " D" stands for the codes the parser
\* has no branch for.
Codes == {<<"?", "?">>, <<" ", "M">>, <<"M", " ">>, <<"A", " ">>, <<"M", "M">>, <<" ", "D">>}

Paths == {<<"a">>, <<"x", "a">>, <<"b">>}

StatusLines == [code : Codes, path : Paths]

\* git reports every path once.
LineSeqs(n) ==
  UNION {{ls \in [1..k -> StatusLines] :
            \A i, j \in 1..k : i # j => ls[i].path # ls[j].path} : k \in 0..n}

\* The text git prints for the lines: code, a space, the path, a newline.
RECURSIVE Render(_)
Render(ls) == IF ls = <<>> THEN <<>>
              ELSE Head(ls).code \o <<" ">> \o Head(ls).path \o <<NL>> \o Render(Tail(ls))

\* What the user may type between the commas of a selection.
TypedTokens == {<<"1">>, <<"0", "_", "2">>, <<"9">>, <<"0">>, <<"-", "1">>, <<"x">>, <<>>,
                <<" ", "2">>, <<"a">>, <<"Q">>}

TokenSeqs(n) == UNION {[1..k -> TypedTokens] : k \in 1..n}

\* A numeral of one digit more than int() converts.
LongNumeral == [i \in 1..(IntMaxStrDigits + 1) |-> "0"]

\* Selections with that numeral: on its own, and after a valid index.
LongSelections == { <<LongNumeral>>, << <<"2">>, LongNumeral >> }

\* ",".join(tokens)
RECURSIVE JoinComma(_)
JoinComma(ts) == IF Len(ts) = 1 THEN ts[1] ELSE ts[1] \o <<",">> \o JoinComma(Tail(ts))

StderrText == <<"f", "a", "t", "a", "l">>

\* What a command whose output is not inspected may do.
PlainExecs == {ExitExec(0, <<>>, <<>>), ExitExec(1, <<>>, StderrText), ErrorExec}

\* An execution of a command that ends in 2>/dev/null: nothing the command
\* writes to its standard error reaches run_command.
StderrDiscarded(e) == IF e.kind = "exit" THEN [e EXCEPT !.stderr = <<>>] ELSE e

\* `gh auth status 2>/dev/null`
AuthStatusExecs == {ExitExec(0, <<"L", "o", "g", "g", "e", "d", " ", "i", "n", " ", "t", "o", " ", "g", "i", "t", "h", "u", "b", ".", "c", "o", "m">>, <<>>),
                    ExitExec(0, <<"Y", "o", "u", " ", "a", "r", "e", " ", "n", "o", "t", " ", "l", "o", "g", "g", "e", "d", " ", "i", "n">>, <<>>),
                    ExitExec(1, <<>>, <<>>), ErrorExec}

\* `git config --get user.name` / `user.email`
ConfigGetExecs == {ExitExec(0, <<"d", "e", "v", NL>>, <<>>), ExitExec(0, <<NL>>, <<>>),
                   ExitExec(1, <<>>, <<>>), ErrorExec}

\* `git rev-parse --abbrev-ref HEAD`
BranchExecs == {ExitExec(0, <<"m", "a", "i", "n", NL>>, <<>>), ExitExec(0, <<"m", "a", "s", "t", "e", "r", NL>>, <<>>),
                ExitExec(0, <<"d", "e", "v", NL>>, <<>>), ExitExec(128, <<>>, StderrText), ErrorExec}

\* `git remote -v`
RemoteExecs == {ExitExec(0, <<"o", "r", "i", "g", "i", "n", NL>>, <<>>), ExitExec(0, <<>>, <<>>),
                ExitExec(1, <<>>, StderrText), ErrorExec}

\* `git ls-remote --heads origin <branch>`: the branch is listed, or not.
LsRemoteExecs(branch) == {ExitExec(0, <<"r", "e", "f", "s", "/", "h", "e", "a", "d", "s", "/">> \o branch \o <<NL>>, <<>>),
                          ExitExec(0, <<>>, <<>>),
                          ExitExec(128, <<>>, StderrText), ErrorExec}

\* Porcelain outputs of the workflow specification.
WfLineSeqs ==
  { <<>>,
    <<[code |-> <<"M", "M">>, path |-> <<"a">>]>>,
    <<[code |-> <<"M", " ">>, path |-> <<"a">>]>>,
    <<[code |-> <<" ", "M">>, path |-> <<"a">>]>>,
    <<[code |-> <<"M", "M">>, path |-> <<"a">>], [code |-> <<"?", "?">>, path |-> <<"b">>]>>,
    <<[code |-> <<"A", " ">>, path |-> <<"b">>], [code |-> <<" ", "M">>, path |-> <<"x", "a">>]>> }

StatusExecs(lineSeqs) ==
  {ExitExec(0, Render(ls), <<>>) : ls \in lineSeqs}
    \cup {ExitExec(128, <<>>, StderrText), ErrorExec}

\* Lines typed at the selection prompt in the workflow specification.
WfTyped == {<<"a">>, <<"q">>, <<"1">>, <<"2", ",", "1">>, <<"x">>, <<"1", ",", "x">>, <<"9">>}

\* Answers typed at the yes/no prompts.
YesNoAnswers == {<<"y">>, <<"Y">>, <<"y", "e", "s">>, <<"n">>, <<>>}

\* Answers typed at the menu of manage_existing_repository.
MenuAnswers == {<<"1">>, <<"2">>, <<"3">>, <<"4">>, <<"5">>, <<"x">>}

\* Branch names typed at the branch prompts.
BranchNames == {<<>>, <<"f", "e", "a", "t">>}

(***************************************************************************)
(* generate_commit_message_template and the commit message                 *)
(***************************************************************************)
generate_commit_message_template ==
  <<"#", " ", "W", "r", "i", "t", "e", " ", "a", " ", "c", "o", "n", "c", "i", "s", "e", " ", "a", "n", "d", " ", "m", "e", "a", "n", "i", "n", "g", "f", "u", "l", " ", "c", "o", "m", "m", "i", "t", " ", "m", "e", "s", "s", "a", "g", "e", " ", "(", "5", "0", " ", "c", "h", "a", "r", "s", " ", "o", "r", " ", "l", "e", "s", "s", ")", NL>> \o
  <<"#", " ", NL>> \o
  <<"#", " ", "M", "o", "r", "e", " ", "d", "e", "t", "a", "i", "l", "e", "d", " ", "e", "x", "p", "l", "a", "n", "a", "t", "i", "o", "n", ",", " ", "i", "f", " ", "n", "e", "c", "e", "s", "s", "a", "r", "y", ".", " ", "K", "e", "e", "p", " ", "l", "i", "n", "e", " ", "l", "e", "n", "g", "t", "h", " ", "t", "o", " ", "7", "2", " ", "c", "h", "a", "r", "s", ".", NL>> \o
  <<"#", " ", "E", "x", "p", "l", "a", "i", "n", " ", "w", "h", "a", "t", " ", "a", "n", "d", " ", "w", "h", "y", ",", " ", "n", "o", "t", " ", "h", "o", "w", ".", NL>> \o
  <<"#", NL>> \o
  <<"#", " ", "-", " ", "B", "u", "l", "l", "e", "t", " ", "p", "o", "i", "n", "t", "s", " ", "a", "r", "e", " ", "o", "k", "a", "y", NL>> \o
  <<"#", NL>> \o
  <<"#", " ", "R", "e", "l", "a", "t", "e", "d", " ", "i", "s", "s", "u", "e", ":", " ", "(", "i", "f", " ", "a", "p", "p", "l", "i", "c", "a", "b", "l", "e", ")", NL>> \o
  <<"#", NL>> \o
  <<"#", " ", "C", "o", "-", "a", "u", "t", "h", "o", "r", "e", "d", "-", "b", "y", ":", " ", "N", "a", "m", "e", " ", "<", "e", "m", "a", "i", "l", ">", " ", "(", "i", "f", " ", "a", "p", "p", "l", "i", "c", "a", "b", "l", "e", ")", NL>>

\* A mutant that discards only the lines that are exactly the comment marker.
KeptLines_only_bare_marker(lines) ==
  SelectSeq(lines, LAMBDA line : ~(line = <<"#", NL>>))

\* [line for line in f.readlines() if not line.startswith("#")]
KeptLines(lines) ==
  SelectSeq(lines, LAMBDA line : ~(line # <<>> /\ Head(line) = "#"))

\* "".join(commit_msg_lines).strip()
CommitMessage(content) == Strip(Join(KeptLines(ReadLines(content))))

\* A text saved with CRLF line ends.
WithCRLF(s) ==
  LET lines == LinesOf(s)
  IN  Join([i \in 1..Len(lines) |->
              IF lines[i][Len(lines[i])] = NL
              THEN SubSeq(lines[i], 1, Len(lines[i]) - 1) \o <<CR, NL>>
              ELSE lines[i]])

\* What the scratch file may hold when the editor command returns.
EditedContents ==
  { generate_commit_message_template,
    WithCRLF(generate_commit_message_template),
    <<"F", "i", "x", " ", "b", "u", "g", NL>> \o generate_commit_message_template,
    generate_commit_message_template \o <<" ", " ", NL, NL>>,
    <<" ", "#", " ", "i", "n", "d", "e", "n", "t", "e", "d", NL>> \o generate_commit_message_template,
    <<>> }

NoScratch == [state |-> "none", content |-> <<>>, decodable |-> TRUE]

(***************************************************************************)
(* State                                                                   *)
(***************************************************************************)
VARIABLES
  pc,             \* position in the script
  exit_status,    \* -1 while running, else the status the process exited with
  mode,           \* "none", "new" (setup_new_repository) or "existing"
  cmds,           \* the commands run_command has been called with, in order
  exec,           \* the last execution handed to run_command
  res,            \* what run_command made of it
  gitignore,      \* "absent", "written" or "error"
  current_branch, \* local of manage_existing_repository / push_changes
  flag,           \* the first success flag of a two-command step
  raw_lines,      \* the status lines git printed (code and path of each)
  typed_tokens,   \* what the user typed between the commas
  typed,          \* the line read by input() at the selection prompt
  st,             \* the three lists returned by get_git_status
  files,          \* the list returned by choose_files_to_add
  selected,       \* whether choose_files_to_add has returned
  notice,         \* the message choose_files_to_add printed on returning []
  added,          \* how many of files the staging loop has added
  scratch,        \* the temporary commit-message file: "none", "present",
                  \* "removed" (by the editor command) or "deleted" (unlinked)
  read_back,      \* the text of the scratch file as readlines() returned it
  commit_msg,     \* the stripped commit message
  commit_ret,     \* what commit_changes returned: "none", "true", "false"
  push_asked,     \* whether push_changes has asked for the confirmation
  push_answer,    \* the line read by input() at that prompt
  push_ret,       \* what push_changes returned: "none", "true", "false"
  branches        \* the list returned by list_branches

vars == <<pc, exit_status, mode, cmds, exec, res, gitignore, current_branch, flag,
          raw_lines, typed_tokens, typed, st, files, selected, notice, added,
          scratch, read_back, commit_msg, commit_ret,
          push_asked, push_answer, push_ret, branches>>

pushVars == <<push_asked, push_answer, push_ret>>

ioVars == <<cmds, exec, res>>

selVars == <<raw_lines, typed_tokens, typed, st, files, selected, notice, added>>

commitVars == <<scratch, read_back, commit_msg, commit_ret>>

NoResult == [raised |-> FALSE, success |-> FALSE, text |-> <<>>]

InitCommon ==
  /\ exit_status = -1
  /\ mode = "none"
  /\ cmds = <<>>
  /\ res = NoResult
  /\ gitignore = "absent"
  /\ current_branch = <<>>
  /\ flag = FALSE
  /\ st = NoStatus
  /\ files = <<>>
  /\ selected = FALSE
  /\ notice = "none"
  /\ added = 0
  /\ scratch = NoScratch
  /\ read_back = <<>>
  /\ commit_msg = <<>>
  /\ commit_ret = "none"
  /\ push_asked = FALSE
  /\ push_answer = <<>>
  /\ push_ret = "none"
  /\ branches = <<>>

\* The state when main() is entered.
Init ==
  /\ InitCommon
  /\ pc = "main"
  /\ exec = ExitExec(0, <<>>, <<>>)
  /\ raw_lines = <<>>
  /\ typed_tokens = <<>>
  /\ typed = <<>>

(***************************************************************************)
(* Steps shared by the actions                                             *)
(***************************************************************************)
Outcome(e) == IF e.kind = "error" THEN "raise" ELSE IF e.code = 0 THEN "ok" ELSE "fail"

\* One call of run_command(c) whose subprocess behaves as e.
Run(c, a, e) ==
  /\ exec' = e
  /\ res' = run_command(e)
  /\ cmds' = Append(cmds, [cmd |-> c, arg |-> a, res |-> Outcome(e)])

\* Control moves to t.  The process exits with 0 at the end of main() and at
\* sys.exit(0), with 1 at sys.exit(1) and when an exception is not caught.
Goto(t) ==
  /\ pc' = t
  /\ exit_status' = IF t = "exit0" THEN 0
                    ELSE IF t \in {"exit1", "crash"} THEN 1 ELSE exit_status

\* Continue according to the result of the call just made.
Branch(okpc, failpc) ==
  Goto(IF res'.raised THEN "crash" ELSE IF res'.success THEN okpc ELSE failpc)

\* A step that is one run_command call and a two-way branch on its flag.
Step(from, c, execs, okpc, failpc) ==
  /\ pc = from
  /\ \E e \in execs : Run(c, <<>>, e) /\ Branch(okpc, failpc)

\* input() raises EOFError at a prompt reached at pc = from; nothing catches
\* it, and the process ends with a traceback.
EndOfInputAt(from) ==
  /\ pc = from
  /\ Goto("crash")
  /\ UNCHANGED ioVars

IsYes(answer) == Lower(answer) \in {<<"y">>, <<"y", "e", "s">>}

IsMainBranch(b) == b \in {<<"m", "a", "i", "n">>, <<"m", "a", "s", "t", "e", "r">>}

(***************************************************************************)
(* main, up to the choice between a new and an existing repository         *)
(***************************************************************************)
check_git_installed ==
  /\ UNCHANGED pushVars
  /\ UNCHANGED branches
  /\ Step("main", "git --version", PlainExecs, "is_git_repo", "exit1")
  /\ UNCHANGED <<mode, gitignore, current_branch, flag>>
  /\ UNCHANGED <<selVars, commitVars>>

is_git_repo ==
  /\ UNCHANGED pushVars
  /\ UNCHANGED branches
  /\ pc = "is_git_repo"
  /\ \E e \in PlainExecs :
       /\ Run("git rev-parse --is-inside-work-tree", <<>>, e)
       /\ Branch("login_check", "ask_initialize")
       /\ mode' = IF res'.success THEN "existing" ELSE mode
  /\ UNCHANGED <<gitignore, current_branch, flag>>
  /\ UNCHANGED <<selVars, commitVars>>

\* main: "Would you like to initialize a new Git repository here?"
main_ask_initialize ==
  /\ UNCHANGED pushVars
  /\ UNCHANGED branches
  /\ pc = "ask_initialize"
  /\ \E answer \in YesNoAnswers \cup {EndOfFile} :
       IF answer = EndOfFile THEN mode' = mode /\ Goto("crash")
       ELSE IF IsYes(answer) THEN mode' = "new" /\ Goto("git_init")
       ELSE mode' = mode /\ Goto("exit0")
  /\ UNCHANGED <<gitignore, current_branch, flag>>
  /\ UNCHANGED <<ioVars, selVars, commitVars>>

(***************************************************************************)
(* setup_new_repository                                                    *)
(***************************************************************************)
initialize_git_repo ==
  /\ UNCHANGED pushVars
  /\ UNCHANGED branches
  /\ Step("git_init", "git init", PlainExecs, "gitignore", "exit1")
  /\ UNCHANGED <<mode, gitignore, current_branch, flag>>
  /\ UNCHANGED <<selVars, commitVars>>

\* The write succeeds, or open()/write() raises and the handler returns False.
create_python_gitignore ==
  /\ UNCHANGED pushVars
  /\ UNCHANGED branches
  /\ pc = "gitignore"
  /\ \E written \in BOOLEAN :
       IF written THEN gitignore' = "written" /\ Goto("initial_add")
       ELSE gitignore' = "error" /\ Goto("exit1")
  /\ UNCHANGED <<mode, current_branch, flag>>
  /\ UNCHANGED <<ioVars, selVars, commitVars>>

make_initial_commit ==
  /\ UNCHANGED pushVars
  /\ UNCHANGED branches
  /\ \/ Step("initial_add", "git add .", PlainExecs, "initial_commit", "exit1")
     \/ Step("initial_commit", "git commit -m \"Initial commit\"", PlainExecs,
             "ask_publish", "exit1")
  /\ UNCHANGED <<mode, gitignore, current_branch, flag>>
  /\ UNCHANGED <<selVars, commitVars>>

\* setup_new_repository: "Do you want to publish this repository to GitHub?"
setup_new_repository_ask_publish ==
  /\ UNCHANGED pushVars
  /\ UNCHANGED branches
  /\ pc = "ask_publish"
  /\ \E answer \in YesNoAnswers \cup {EndOfFile} :
       Goto(IF answer = EndOfFile THEN "crash"
            ELSE IF IsYes(answer) THEN "login_check" ELSE "tips")
  /\ UNCHANGED <<mode, gitignore, current_branch, flag>>
  /\ UNCHANGED <<ioVars, selVars, commitVars>>

(***************************************************************************)
(* check_github_logged_in and github_login                                 *)
(***************************************************************************)
\* Where a caller of check_github_logged_in goes with its result.
AfterLoginCheck(logged_in) ==
  IF mode = "new" THEN (IF logged_in THEN "remote_cli" ELSE "login")
  ELSE (IF logged_in THEN "manage" ELSE "ask_login")

\* Where a caller of github_login goes with its result.
AfterLogin(ok) ==
  IF mode = "new" THEN (IF ok THEN "remote_cli" ELSE "tips") ELSE "manage"

\* Truthiness of `success and output.strip()`.
NonEmptyOutput(r) == r.success /\ Strip(r.text) # <<>>

check_github_logged_in ==
  /\ UNCHANGED pushVars
  /\ UNCHANGED branches
  /\ \/ /\ Step("login_check", "gh --version", PlainExecs, "gh_auth_status", "config_name")
        /\ flag' = flag
     \/ /\ pc = "gh_auth_status"
        /\ \E e \in AuthStatusExecs :
             /\ Run("gh auth status 2>/dev/null", <<>>, e)
             /\ Goto(IF res'.raised THEN "crash"
                     ELSE IF res'.success /\ Contains(res'.text, <<"L", "o", "g", "g", "e", "d", " ", "i", "n", " ", "t", "o">>)
                          THEN AfterLoginCheck(TRUE) ELSE "gh_api_user")
        /\ flag' = flag
     \/ /\ Step("gh_api_user", "gh api user 2>/dev/null",
                {StderrDiscarded(e) : e \in PlainExecs},
                AfterLoginCheck(TRUE), "gh_user_status")
        /\ flag' = flag
     \/ /\ Step("gh_user_status", "gh user status 2>/dev/null",
                {StderrDiscarded(e) : e \in PlainExecs},
                AfterLoginCheck(TRUE), "config_name")
        /\ flag' = flag
     \/ /\ pc = "config_name"
        /\ \E e \in ConfigGetExecs :
             /\ Run("git config --get user.name", <<>>, e)
             /\ Goto(IF res'.raised THEN "crash" ELSE "config_email")
             /\ flag' = NonEmptyOutput(res')
     \/ /\ pc = "config_email"
        /\ \E e \in ConfigGetExecs :
             /\ Run("git config --get user.email", <<>>, e)
             /\ Goto(IF res'.raised THEN "crash"
                     ELSE AfterLoginCheck(flag /\ NonEmptyOutput(res')))
        /\ flag' = flag
  /\ UNCHANGED <<mode, gitignore, current_branch>>
  /\ UNCHANGED <<selVars, commitVars>>

\* main: "Would you like to log in now?"
main_ask_login ==
  /\ UNCHANGED pushVars
  /\ UNCHANGED branches
  /\ pc = "ask_login"
  /\ \E answer \in YesNoAnswers \cup {EndOfFile} :
       Goto(IF answer = EndOfFile THEN "crash"
            ELSE IF IsYes(answer) THEN "login" ELSE "manage")
  /\ UNCHANGED <<mode, gitignore, current_branch, flag>>
  /\ UNCHANGED <<ioVars, selVars, commitVars>>

github_login ==
  /\ UNCHANGED pushVars
  /\ UNCHANGED branches
  /\ \/ /\ Step("login", "gh --version", PlainExecs, "gh_auth_login", "login_name")
        /\ flag' = flag
     \/ /\ Step("gh_auth_login", "gh auth login", PlainExecs,
                AfterLogin(TRUE), AfterLogin(FALSE))
        /\ flag' = flag
     \/ /\ Step("login_name", "git config --global user.name", PlainExecs,
                "login_email", "login_email")
        /\ flag' = res'.success
     \* the prompts for the username and the email come before both commands
     \/ /\ EndOfInputAt("login_name")
        /\ flag' = flag
     \/ /\ pc = "login_email"
        /\ \E e \in PlainExecs :
             /\ Run("git config --global user.email", <<>>, e)
             /\ Goto(IF res'.raised THEN "crash" ELSE AfterLogin(flag /\ res'.success))
        /\ flag' = flag
  /\ UNCHANGED <<mode, gitignore, current_branch>>
  /\ UNCHANGED <<selVars, commitVars>>

(***************************************************************************)
(* setup_github_remote                                                     *)
(***************************************************************************)
setup_github_remote ==
  /\ UNCHANGED pushVars
  /\ UNCHANGED branches
  /\ \/ Step("remote_cli", "gh --version", PlainExecs, "repo_create", "remote_add")
     \/ Step("repo_create", "gh repo create", PlainExecs, "tips", "tips")
     \/ Step("remote_add", "git remote add origin", PlainExecs, "remote_push", "tips")
     \/ Step("remote_push", "git push -u origin main || git push -u origin master",
             PlainExecs, "tips", "tips")
     \* the prompt for the repository name, for the visibility, and the two
     \* prompts of the manual setup
     \/ EndOfInputAt("remote_cli")
     \/ EndOfInputAt("repo_create")
     \/ EndOfInputAt("remote_add")
  /\ UNCHANGED <<mode, gitignore, current_branch, flag>>
  /\ UNCHANGED <<selVars, commitVars>>

(***************************************************************************)
(* manage_existing_repository                                              *)
(***************************************************************************)
\* output.strip() if success else "unknown"
get_current_branch(r) == IF r.success THEN Strip(r.text) ELSE <<"u", "n", "k", "n", "o", "w", "n">>

IsClean(s) == s.modified = <<>> /\ s.untracked = <<>> /\ s.staged = <<>>

manage_existing_repository ==
  /\ UNCHANGED pushVars
  /\ UNCHANGED branches
  /\ \/ /\ pc = "manage"
        /\ \E e \in BranchExecs :
             /\ Run("git rev-parse --abbrev-ref HEAD", <<>>, e)
             /\ Goto(IF res'.raised THEN "crash" ELSE "manage_status")
             /\ current_branch' = IF res'.raised THEN current_branch
                                  ELSE get_current_branch(res')
     \/ /\ pc = "manage_status"
        /\ \E e \in StatusExecs(WfLineSeqs) :
             /\ Run("git status --porcelain", <<>>, e)
             /\ Goto(IF res'.raised THEN "crash"
                     ELSE IF ~IsClean(get_git_status(res')) THEN "menu"
                     ELSE IF IsMainBranch(current_branch) THEN "ask_new_branch"
                     ELSE "tips")
        /\ UNCHANGED current_branch
     \/ /\ pc = "ask_new_branch"
        /\ \E create_new \in YesNoAnswers \cup {EndOfFile},
              branch_name \in BranchNames \cup {EndOfFile} :
             Goto(IF create_new = EndOfFile THEN "crash"
                  ELSE IF Lower(create_new) # <<"y">> THEN "tips"
                  ELSE IF branch_name = EndOfFile THEN "crash"
                  ELSE IF branch_name # <<>> THEN "create_branch_clean" ELSE "tips")
        /\ UNCHANGED <<ioVars, current_branch>>
     \/ /\ pc = "menu"
        /\ \E choice \in MenuAnswers \cup {EndOfFile},
              branch_name \in BranchNames \cup {EndOfFile} :
             Goto(IF choice = EndOfFile THEN "crash"
                  ELSE IF choice = <<"1">> THEN "commit_select"
                  ELSE IF choice = <<"2">>
                       THEN (IF branch_name = EndOfFile THEN "crash"
                             ELSE IF branch_name # <<>> THEN "create_branch" ELSE "tips")
                  ELSE IF choice = <<"3">> THEN "detailed_status"
                  ELSE IF choice = <<"4">> THEN "push"
                  ELSE "tips")
        /\ UNCHANGED <<ioVars, current_branch>>
     \/ /\ Step("detailed_status", "git status", PlainExecs, "tips", "tips")
        /\ UNCHANGED current_branch
  /\ UNCHANGED <<mode, gitignore, flag>>
  /\ UNCHANGED <<selVars, commitVars>>

create_branch ==
  /\ UNCHANGED pushVars
  /\ UNCHANGED branches
  /\ \/ Step("create_branch_clean", "git checkout -b", PlainExecs, "tips", "tips")
     \/ Step("create_branch", "git checkout -b", PlainExecs, "commit_select", "tips")
  /\ UNCHANGED <<mode, gitignore, current_branch, flag>>
  /\ UNCHANGED <<selVars, commitVars>>

(***************************************************************************)
(* commit_changes                                                          *)
(***************************************************************************)
\* A mutant without the `if not files` return: the flow goes on to the
\* staging loop and the scratch file with an empty selection.
commit_changes_select_no_empty_check ==
  /\ UNCHANGED pushVars
  /\ UNCHANGED branches
  /\ pc = "commit_select"
  /\ \E e \in StatusExecs(WfLineSeqs), t \in WfTyped \cup {EndOfFile} :
       /\ Run("git status --porcelain", <<>>, e)
       /\ IF res'.raised \/ PromptRaises(get_git_status(res'), t)
          THEN Goto("crash") /\ UNCHANGED <<files, selected, notice>>
          ELSE LET chosen == choose_files_to_add(get_git_status(res'), t)
               IN  /\ files' = chosen
                   /\ selected' = TRUE
                   /\ notice' = Printed(get_git_status(res'), t)
                   /\ Goto(IF chosen = <<>> THEN "commit_scratch" ELSE "commit_add")
  /\ UNCHANGED <<added, commit_ret, raw_lines, typed_tokens, typed, st>>
  /\ UNCHANGED <<scratch, read_back, commit_msg>>
  /\ UNCHANGED <<mode, gitignore, current_branch, flag>>

\* files = choose_files_to_add(), then `if not files: return False`.  The
\* status and the typed line are locals of choose_files_to_add.
commit_changes_select ==
  /\ UNCHANGED pushVars
  /\ UNCHANGED branches
  /\ pc = "commit_select"
  /\ \E e \in StatusExecs(WfLineSeqs), t \in WfTyped \cup {EndOfFile} :
       /\ Run("git status --porcelain", <<>>, e)
       /\ IF res'.raised \/ PromptRaises(get_git_status(res'), t)
          THEN Goto("crash") /\ UNCHANGED <<files, selected, notice, commit_ret>>
          ELSE LET chosen == choose_files_to_add(get_git_status(res'), t)
               IN  /\ files' = chosen
                   /\ selected' = TRUE
                   /\ notice' = Printed(get_git_status(res'), t)
                   /\ IF chosen = <<>>
                      THEN commit_ret' = "false" /\ Goto("tips")
                      ELSE commit_ret' = commit_ret /\ Goto("commit_add")
  /\ UNCHANGED <<added, raw_lines, typed_tokens, typed, st>>
  /\ UNCHANGED <<scratch, read_back, commit_msg>>
  /\ UNCHANGED <<mode, gitignore, current_branch, flag>>

\* A mutant that ignores the success flag of `git add`.
commit_changes_add_ignore_failure ==
  /\ UNCHANGED pushVars
  /\ UNCHANGED branches
  /\ pc = "commit_add"
  /\ added < Len(files)
  /\ \E e \in PlainExecs :
       /\ Run("git add", files[added + 1], e)
       /\ IF res'.raised
          THEN Goto("crash") /\ added' = added
          ELSE /\ added' = added + 1
               /\ Goto(IF added + 1 = Len(files) THEN "commit_scratch" ELSE "commit_add")
  /\ UNCHANGED <<raw_lines, typed_tokens, typed, st, files, selected, notice>>
  /\ UNCHANGED commitVars
  /\ UNCHANGED <<mode, gitignore, current_branch, flag>>

\* One iteration of `for file in files`: git add "<file>", return False if
\* it failed.
commit_changes_add ==
  /\ UNCHANGED pushVars
  /\ UNCHANGED branches
  /\ pc = "commit_add"
  /\ added < Len(files)
  /\ \E e \in PlainExecs :
       /\ Run("git add", files[added + 1], e)
       /\ IF res'.raised
          THEN Goto("crash") /\ UNCHANGED <<added, commit_ret>>
          ELSE IF ~res'.success
          THEN commit_ret' = "false" /\ added' = added /\ Goto("tips")
          ELSE /\ added' = added + 1
               /\ commit_ret' = commit_ret
               /\ Goto(IF added + 1 = Len(files) THEN "commit_scratch" ELSE "commit_add")
  /\ UNCHANGED <<raw_lines, typed_tokens, typed, st, files, selected, notice>>
  /\ UNCHANGED <<scratch, read_back, commit_msg>>
  /\ UNCHANGED <<mode, gitignore, current_branch, flag>>

\* tempfile.NamedTemporaryFile(delete=False), write the template, close.
commit_changes_scratch ==
  /\ UNCHANGED pushVars
  /\ UNCHANGED branches
  /\ pc = "commit_scratch"
  /\ scratch' = [state |-> "present", content |-> generate_commit_message_template,
                 decodable |-> TRUE]
  /\ Goto("commit_editor")
  /\ UNCHANGED <<read_back, commit_msg, commit_ret>>
  /\ UNCHANGED <<ioVars, selVars>>
  /\ UNCHANGED <<mode, gitignore, current_branch, flag>>

\* run_command(f"{editor} {commit_msg_file.name}"); the flag is not looked
\* at.  The editor leaves some text in the file, or bytes that do not decode,
\* or removes the file; it has done so also when run_command raises, which
\* it does once the editor has ended, or before it started (the file then
\* still holds the template).
commit_changes_editor ==
  /\ UNCHANGED pushVars
  /\ UNCHANGED branches
  /\ pc = "commit_editor"
  /\ \E e \in PlainExecs, c \in EditedContents, d \in BOOLEAN, removed \in BOOLEAN :
       /\ d \/ c = <<>>
       /\ removed => (d /\ c = <<>>)
       /\ Run("editor", <<>>, e)
       /\ scratch' = [state |-> IF removed THEN "removed" ELSE "present",
                      content |-> c, decodable |-> d]
       /\ Goto(IF res'.raised THEN "crash" ELSE "commit_read")
  /\ UNCHANGED <<read_back, commit_msg, commit_ret>>
  /\ UNCHANGED selVars
  /\ UNCHANGED <<mode, gitignore, current_branch, flag>>

\* Read the file back, drop the comment lines, strip; an empty message
\* unlinks the file and returns False.  open() raises on a file that is no
\* longer there, readlines() on text that does not decode.
commit_changes_read ==
  /\ UNCHANGED pushVars
  /\ UNCHANGED branches
  /\ pc = "commit_read"
  /\ IF scratch.state = "removed" \/ ~scratch.decodable
     THEN Goto("crash") /\ UNCHANGED commitVars
     ELSE /\ read_back' = UniversalNewlines(scratch.content)
          /\ commit_msg' = CommitMessage(scratch.content)
          /\ IF commit_msg' = <<>>
             THEN /\ scratch' = [scratch EXCEPT !.state = "deleted"]
                  /\ commit_ret' = "false"
                  /\ Goto("tips")
             ELSE /\ UNCHANGED <<scratch, commit_ret>>
                  /\ Goto("commit_run")
  /\ UNCHANGED <<ioVars, selVars>>
  /\ UNCHANGED <<mode, gitignore, current_branch, flag>>

\* git commit -m "<commit_msg>", unlink the file, return the flag.
commit_changes_run ==
  /\ UNCHANGED pushVars
  /\ UNCHANGED branches
  /\ pc = "commit_run"
  /\ \E e \in PlainExecs :
       /\ Run("git commit -m", commit_msg, e)
       /\ IF res'.raised
          THEN Goto("crash") /\ UNCHANGED <<scratch, commit_ret>>
          ELSE /\ scratch' = [scratch EXCEPT !.state = "deleted"]
               /\ commit_ret' = IF res'.success THEN "true" ELSE "false"
               /\ Goto("tips")
  /\ UNCHANGED <<read_back, commit_msg>>
  /\ UNCHANGED selVars
  /\ UNCHANGED <<mode, gitignore, current_branch, flag>>

commit_changes ==
  \/ commit_changes_select
  \/ commit_changes_add
  \/ commit_changes_scratch
  \/ commit_changes_editor
  \/ commit_changes_read
  \/ commit_changes_run

(***************************************************************************)
(* push_changes                                                            *)
(***************************************************************************)
\* success and bool(output.strip())
has_remote(r) == r.success /\ Strip(r.text) # <<>>

\* A mutant whose confirmation accepts every answer.
PushConfirmed_any_answer(choice) == choice = choice

\* `choice = input(...).lower()`, and the push goes on unless choice != "y".
PushConfirmed(choice) == Lower(choice) = <<"y">>

\* The value push_changes returns after its git push: the success flag.
PushResult(r) == IF r.raised THEN "none" ELSE IF r.success THEN "true" ELSE "false"

push_changes ==
  /\ \/ /\ pc = "push"
        /\ \E e \in BranchExecs :
             /\ Run("git rev-parse --abbrev-ref HEAD", <<>>, e)
             /\ current_branch' = IF res'.raised THEN current_branch
                                  ELSE get_current_branch(res')
             /\ Goto(IF res'.raised THEN "crash"
                     ELSE IF IsMainBranch(current_branch') THEN "push_confirm"
                     ELSE "push_remote")
        /\ UNCHANGED pushVars
     \/ /\ pc = "push_confirm"
        /\ \E choice \in YesNoAnswers \cup {EndOfFile} :
             IF choice = EndOfFile
             THEN Goto("crash") /\ UNCHANGED pushVars
             ELSE /\ push_asked' = TRUE
                  /\ push_answer' = choice
                  /\ IF PushConfirmed(choice)
                     THEN push_ret' = push_ret /\ Goto("push_remote")
                     ELSE push_ret' = "false" /\ Goto("tips")
        /\ UNCHANGED <<ioVars, current_branch>>
     \/ /\ pc = "push_remote"
        /\ \E e \in RemoteExecs :
             /\ Run("git remote -v", <<>>, e)
             /\ Goto(IF res'.raised THEN "crash"
                     ELSE IF has_remote(res') THEN "push_ls" ELSE "tips")
             /\ push_ret' = IF ~res'.raised /\ ~has_remote(res') THEN "false" ELSE push_ret
        /\ UNCHANGED <<current_branch, push_asked, push_answer>>
     \/ /\ pc = "push_ls"
        /\ \E e \in LsRemoteExecs(current_branch) :
             /\ Run("git ls-remote --heads origin", current_branch, e)
             /\ Goto(IF res'.raised THEN "crash"
                     ELSE IF Contains(res'.text, current_branch) THEN "push_plain"
                     ELSE "push_upstream")
        /\ UNCHANGED <<current_branch, pushVars>>
     \/ /\ pc = "push_plain"
        /\ \E e \in PlainExecs :
             /\ Run("git push origin", current_branch, e)
             /\ Branch("tips", "tips")
             /\ push_ret' = PushResult(res')
        /\ UNCHANGED <<current_branch, push_asked, push_answer>>
     \/ /\ pc = "push_upstream"
        /\ \E e \in PlainExecs :
             /\ Run("git push -u origin", current_branch, e)
             /\ Branch("tips", "tips")
             /\ push_ret' = PushResult(res')
        /\ UNCHANGED <<current_branch, push_asked, push_answer>>
  /\ UNCHANGED <<mode, gitignore, flag, branches>>
  /\ UNCHANGED <<selVars, commitVars>>

\* show_git_tips, "Done!", and main returns.
show_git_tips ==
  /\ UNCHANGED pushVars
  /\ UNCHANGED branches
  /\ pc = "tips"
  /\ Goto("exit0")
  /\ UNCHANGED <<mode, gitignore, current_branch, flag>>
  /\ UNCHANGED <<ioVars, selVars, commitVars>>

Next ==
  \/ check_git_installed
  \/ is_git_repo
  \/ main_ask_initialize
  \/ initialize_git_repo
  \/ create_python_gitignore
  \/ make_initial_commit
  \/ setup_new_repository_ask_publish
  \/ check_github_logged_in
  \/ main_ask_login
  \/ github_login
  \/ setup_github_remote
  \/ manage_existing_repository
  \/ create_branch
  \/ commit_changes
  \/ push_changes
  \/ show_git_tips

Spec == Init /\ [][Next]_vars

(***************************************************************************)
(* The status parser and the selection prompt on their own                 *)
(***************************************************************************)
InitParse ==
  /\ InitCommon
  /\ pc = "parse_status"
  /\ raw_lines \in LineSeqs(MaxLines)
  /\ \/ /\ typed_tokens \in TokenSeqs(MaxTokens) \cup LongSelections
        /\ typed = JoinComma(typed_tokens)
     \/ /\ typed_tokens = <<>>
        /\ typed = EndOfFile
  /\ \/ exec = ExitExec(0, Render(raw_lines), <<>>)
     \/ /\ exec \in {ExitExec(128, Render(raw_lines), StderrText), ErrorExec}
        /\ typed_tokens = << <<"a">> >>

\* get_git_status on the execution of `git status --porcelain`.
parse_get_git_status ==
  /\ UNCHANGED pushVars
  /\ UNCHANGED branches
  /\ pc = "parse_status"
  /\ res' = run_command(exec)
  /\ cmds' = Append(cmds, [cmd |-> "git status --porcelain", arg |-> <<>>,
                           res |-> Outcome(exec)])
  /\ IF res'.raised
     THEN Goto("crash") /\ st' = st
     ELSE Goto("parse_choose") /\ st' = get_git_status(res')
  /\ UNCHANGED <<exec, raw_lines, typed_tokens, typed, files, selected, notice, added>>
  /\ UNCHANGED <<mode, gitignore, current_branch, flag>>
  /\ UNCHANGED commitVars

\* The rest of choose_files_to_add on the typed line.
parse_choose_files_to_add ==
  /\ UNCHANGED pushVars
  /\ UNCHANGED branches
  /\ pc = "parse_choose"
  /\ IF PromptRaises(st, typed)
     THEN UNCHANGED <<files, notice>> /\ Goto("crash")
     ELSE /\ files' = choose_files_to_add(st, typed)
          /\ notice' = Printed(st, typed)
          /\ Goto("parse_done")
  /\ UNCHANGED <<raw_lines, typed_tokens, typed, st, selected, added>>
  /\ UNCHANGED <<mode, gitignore, current_branch, flag>>
  /\ UNCHANGED <<ioVars, commitVars>>

NextParse == parse_get_git_status \/ parse_choose_files_to_add

SpecParse == InitParse /\ [][NextParse]_vars


(***************************************************************************)
(* list_branches and checkout_branch, which main() does not call           *)
(***************************************************************************)
\* `git branch`
BranchListExecs ==
  {ExitExec(0, <<" ", " ", "d", "e", "v", NL, "*", " ", "m", "a", "i", "n", NL>>, <<>>),
   ExitExec(0, <<"*", " ", "m", "a", "i", "n", NL, " ", " ", "d", "e", "v", NL>>, <<>>),
   ExitExec(0, <<"*", " ", "d", "e", "v", NL>>, <<>>),
   ExitExec(0, <<>>, <<>>),
   ExitExec(128, <<>>, StderrText), ErrorExec}

\* The loop of list_branches: the current branch without its "* ", the
\* others stripped, empty lines skipped.
RECURSIVE BranchesOfLines(_)
BranchesOfLines(lines) ==
  IF lines = <<>> THEN <<>>
  ELSE LET line == Head(lines)
       IN  (IF line = <<>> THEN <<>>
            ELSE IF Head(line) = "*" THEN <<SubSeq(line, 3, Len(line))>>
            ELSE <<Strip(line)>>)
           \o BranchesOfLines(Tail(lines))

\* list_branches applied to the result of `git branch`.
BranchesOf(r) == IF ~r.success THEN <<>> ELSE BranchesOfLines(Split(Strip(r.text), NL))

InitBranches ==
  /\ InitCommon
  /\ pc = "list_branches"
  /\ exec = ExitExec(0, <<>>, <<>>)
  /\ raw_lines = <<>>
  /\ typed_tokens = <<>>
  /\ typed = <<>>

list_branches ==
  /\ pc = "list_branches"
  /\ \E e \in BranchListExecs :
       /\ Run("git branch", <<>>, e)
       /\ Goto(IF res'.raised THEN "crash" ELSE "checkout_branch")
       /\ branches' = IF res'.raised THEN branches ELSE BranchesOf(res')
  /\ UNCHANGED <<mode, gitignore, current_branch, flag>>
  /\ UNCHANGED <<selVars, commitVars, pushVars>>

\* checkout_branch(branch_name) returns the success flag of `git checkout`.
checkout_branch ==
  /\ pc = "checkout_branch"
  /\ \E branch_name \in {branches[i] : i \in 1..Len(branches)} \cup BranchNames,
        e \in PlainExecs :
       /\ Run("git checkout", branch_name, e)
       /\ Branch("checked_out", "checkout_failed")
       /\ flag' = res'.success
  /\ UNCHANGED <<mode, gitignore, current_branch, branches>>
  /\ UNCHANGED <<selVars, commitVars, pushVars>>

NextBranches == list_branches \/ checkout_branch

SpecBranches == InitBranches /\ [][NextBranches]_vars

(***************************************************************************)
(* Properties                                                              *)
(***************************************************************************)
Range(s) == {s[i] : i \in 1..Len(s)}

Exited == pc \in {"exit0", "exit1", "crash"}

Issued(names) == \E i \in 1..Len(cmds) : cmds[i].cmd \in names

LastCmd == cmds[Len(cmds)]

\* One of the failures after which the script calls sys.exit(1).
EarlyFatalFailure ==
  \/ gitignore = "error"
  \/ \E i \in 1..Len(cmds) :
       /\ cmds[i].cmd \in {"git --version", "git init", "git add .",
                           "git commit -m \"Initial commit\""}
       /\ cmds[i].res # "ok"

\* C1: a run of main() that has terminated has exit status 1 exactly when
\* an early fatal failure occurred (git --version, git init, the .gitignore
\* write, or the initial commit's add/commit failed) and exit status 0 in
\* every other case.
C1_ExitStatus ==
  Exited => /\ exit_status \in {0, 1}
            /\ (exit_status = 1) <=> EarlyFatalFailure

\* C2: run_command never raises to its caller: it returns (True, stdout)
\* when the command exits with 0, (False, stderr) when it exits non-zero,
\* and a False result for every other failure of the execution.
C2_RunCommandNeverRaises ==
  cmds # <<>> =>
    /\ ~res.raised
    /\ (exec.kind = "exit" /\ exec.code = 0) => (res.success /\ res.text = UniversalNewlines(exec.stdout))
    /\ (exec.kind = "exit" /\ exec.code # 0) => (~res.success /\ res.text = UniversalNewlines(exec.stderr))
    /\ (exec.kind = "error") => ~res.success

\* C3: when the selection step of the interactive commit flow yields no
\* file, commit_changes returns failure and has issued no git add, created
\* no scratch file, invoked no editor and issued no git commit.
C3_EmptySelectionNoSideEffects ==
  (selected /\ files = <<>>) =>
    /\ commit_ret = "false"
    /\ scratch.state = "none"
    /\ ~Issued({"git add", "editor", "git commit -m"})
    /\ pc \in {"tips", "exit0"}

\* The selection step ran on a readable status and yielded nothing.
C3_Witness ==
  /\ selected /\ files = <<>> /\ commit_ret = "false" /\ pc = "exit0"
  /\ LastCmd.cmd = "git status --porcelain" /\ LastCmd.res = "ok"

\* The selection was answered with numbers: the prompt was shown and the
\* line typed is neither the "all" nor the "cancel" token.
NumberedSelection ==
  /\ pc = "parse_done"
  /\ st.modified \o st.untracked # <<>>
  /\ ~(Len(typed_tokens) = 1 /\ Lower(Strip(typed_tokens[1])) \in {<<"a">>, <<"q">>})

\* A token that is a 1-based index into a list of n files.
ValidToken(t, n) ==
  /\ IsIntLiteral(Strip(t))
  /\ 1 <= IntOf(Strip(t)) /\ IntOf(Strip(t)) <= n

\* A non-blank token int() raises ValueError on: text that is not a
\* numeral, or a numeral of more than IntMaxStrDigits digits.
NonNumericToken(t) == Strip(t) # <<>> /\ ~IsIntLiteral(Strip(t))

\* The files at the valid tokens, in token order.
RECURSIVE FilesAtValidTokens(_, _)
FilesAtValidTokens(all, toks) ==
  IF toks = <<>> THEN <<>>
  ELSE (IF ValidToken(Head(toks), Len(all)) THEN <<all[IntOf(Strip(Head(toks)))]>> ELSE <<>>)
       \o FilesAtValidTokens(all, Tail(toks))

\* C4 as stated: every out-of-range or non-numeric token is dropped on its
\* own and the files at the remaining valid indices are returned.
C4_InvalidTokensDroppedIndividually ==
  NumberedSelection =>
    files = FilesAtValidTokens(st.modified \o st.untracked, typed_tokens)

\* C4 (amended): out-of-range numbers (0 and negatives included) that
\* int() converts are dropped on their own, without a message, and the
\* files at the remaining valid 1-based indices into modified-then-untracked
\* are returned in token order, unless int() rejects some non-blank token
\* (text that is not a numeral, or a numeral of more than 4300 digits), in
\* which case the whole selection is rejected: "Invalid selection. No files
\* selected." is printed and the empty list is returned.
C4_OutOfRangeDroppedNonNumericRejectsAll ==
  NumberedSelection =>
    IF \E k \in 1..Len(typed_tokens) : NonNumericToken(typed_tokens[k])
    THEN files = <<>> /\ notice = "Invalid selection. No files selected."
    ELSE /\ files = FilesAtValidTokens(st.modified \o st.untracked, typed_tokens)
         /\ notice = "none"

\* A valid index typed next to an out-of-range number still selects its file.
C4_Witness ==
  /\ NumberedSelection
  /\ Len(typed_tokens) = 2
  /\ \E k \in 1..2 : ValidToken(typed_tokens[k], Len(st.modified \o st.untracked))
  /\ \E k \in 1..2 : /\ IsIntLiteral(Strip(typed_tokens[k]))
                     /\ ~ValidToken(typed_tokens[k], Len(st.modified \o st.untracked))
  /\ Len(files) = 1

\* The user answered the prompt with the "all" token.
ChoseAll ==
  /\ pc = "parse_done"
  /\ res.success
  /\ Len(typed_tokens) = 1 /\ Lower(Strip(typed_tokens[1])) = <<"a">>

\* C5 as stated: "all" returns modified followed by untracked and no path
\* of the staged list.
C5_AllExcludesStagedList ==
  ChoseAll => /\ files = st.modified \o st.untracked
              /\ \A i \in 1..Len(files) : files[i] \notin Range(st.staged)

\* C5 (amended): "all" returns exactly the modified paths followed by the
\* untracked paths and no path of a line whose code is "M " or "A "; a path
\* of the staged list is returned when it is in the modified list as well
\* (code MM).
C5_AllIsModifiedThenUntracked ==
  ChoseAll =>
    /\ files = st.modified \o st.untracked
    /\ \A i \in 1..Len(raw_lines) :
         raw_lines[i].code \in {<<"M", " ">>, <<"A", " ">>}
           => raw_lines[i].path \notin Range(files)

\* "all" on a status with an MM line and something else to select.
C5_Witness ==
  /\ ChoseAll
  /\ \E i \in 1..Len(raw_lines) : raw_lines[i].code = <<"M", "M">>
  /\ Len(files) = 2
  /\ \E i \in 1..Len(files) : files[i] \in Range(st.staged)

\* C6: when the scratch file read back still holds the unedited template,
\* the stripped message is empty and the flow aborts: commit_changes
\* returns failure and no git commit is issued.
C6_UneditedTemplateAborts ==
  (read_back = generate_commit_message_template) =>
    /\ commit_msg = <<>>
    /\ commit_ret = "false"
    /\ ~Issued({"git commit -m"})
    /\ pc \in {"tips", "exit0"}

\* The editor command failed, the template was read back, the flow ended.
C6_Witness ==
  /\ read_back = generate_commit_message_template
  /\ LastCmd.cmd = "editor" /\ LastCmd.res = "fail"
  /\ scratch.state = "deleted"
  /\ pc = "exit0"

\* get_git_status has returned the lists for a status that could be read.
StatusParsed == pc \in {"parse_choose", "parse_done"} /\ res.success

\* C7: the path of every line with code ?? is in the untracked list and in
\* neither the modified nor the staged list.
C7_UntrackedInNoOtherList ==
  StatusParsed =>
    \A i \in 1..Len(raw_lines) :
      raw_lines[i].code = <<"?", "?">> =>
        /\ raw_lines[i].path \in Range(st.untracked)
        /\ raw_lines[i].path \notin Range(st.modified)
        /\ raw_lines[i].path \notin Range(st.staged)

\* C8: at every position of the output, a line with code " M" has its
\* complete path in the modified list and in neither the staged nor the
\* untracked list.
C8_ModifiedAtAnyPosition ==
  StatusParsed =>
    \A i \in 1..Len(raw_lines) :
      raw_lines[i].code = <<" ", "M">> =>
        /\ raw_lines[i].path \in Range(st.modified)
        /\ raw_lines[i].path \notin Range(st.staged)
        /\ raw_lines[i].path \notin Range(st.untracked)

\* The `git add` commands issued so far.
Adds == SelectSeq(cmds, LAMBDA c : c.cmd = "git add")

\* C9: the selected paths are staged one at a time in selection order; the
\* first git add that fails ends the flow: it is the last command issued
\* (no further add, no editor, no commit, nothing that unstages), no
\* scratch file exists and commit_changes has returned failure.
C9_FirstFailedAddAborts ==
  /\ Len(Adds) <= Len(files)
  /\ \A i \in 1..Len(Adds) :
       /\ Adds[i].arg = files[i]
       /\ i < Len(Adds) => Adds[i].res = "ok"
  /\ (\E i \in 1..Len(Adds) : Adds[i].res = "fail") =>
       /\ LastCmd.cmd = "git add" /\ LastCmd.res = "fail"
       /\ scratch.state = "none"
       /\ commit_ret = "false"
       /\ pc \in {"tips", "exit0"}

\* The second of two selected paths failed to stage after the first had
\* been staged.
C9_Witness ==
  /\ Len(Adds) = 2 /\ Adds[1].res = "ok" /\ Adds[2].res = "fail"
  /\ commit_ret = "false"
  /\ pc = "exit0"

\* C10: whenever the commit flow has ended after creating its scratch
\* file, the scratch file has been deleted.
C10_ScratchFileRemoved ==
  (pc \in {"tips", "exit0", "crash"} /\ scratch.state # "none")
    => scratch.state \in {"deleted", "removed"}

RemoteCommands == {"git remote -v", "git ls-remote --heads origin",
                   "git push origin", "git push -u origin"}

\* C11: in push_changes on branch main or master, no remote query and no
\* git push is issued unless the answer to the confirmation prompt (as the
\* code compares it, lower-cased) is y; on any other answer push_changes
\* returns failure and the read of the branch name is the last command run.
C11_MainBranchPushNeedsConfirmation ==
  /\ (IsMainBranch(current_branch) /\ Issued(RemoteCommands))
       => (push_asked /\ Lower(push_answer) = <<"y">>)
  /\ (push_asked /\ Lower(push_answer) # <<"y">>)
       => /\ push_ret = "false"
          /\ ~Issued(RemoteCommands)
          /\ LastCmd.cmd = "git rev-parse --abbrev-ref HEAD"
          /\ pc \in {"tips", "exit0"}

\* On main or master the prompt was answered with something else than y and
\* the script ran to its end.
C11_Witness ==
  /\ IsMainBranch(current_branch)
  /\ push_asked /\ push_answer = <<"n">>
  /\ push_ret = "false"
  /\ pc = "exit0"
====
